---------------------------- MODULE Spec2Model ----------------------------
(***************************************************************************)
(* TermInfo: the capability compiler (compiler.js, kept here as            *)
(* src/unnamed/part_003), the stack-machine runtime (src/program.js) and   *)
(* the decoder of compiled terminfo files (src/terminfo.js).               *)
(*                                                                         *)
(* Strings are sequences of character codes.  JavaScript values are        *)
(* records tagged with their kind.  Array indices keep the 0-based values  *)
(* of the source; a sequence is read at index + 1.                         *)
(***************************************************************************)
EXTENDS Integers, Sequences, FiniteSets, TLC

(***************************************************************************)
(* Bounds of the model.                                                    *)
(***************************************************************************)
\* longest raw instruction list drawn for the compile-only specification
MaxRawLen == 6
\* nesting depth of the %? ... %; constructs drawn for the flow specification
MaxDepth == 2
\* integers on the stack, in registers and in parameter slots stay in -MaxInt..MaxInt
MaxInt == 3
\* most values a program of the stack-machine specification pushes
MaxPush == 2
\* longest literal source
MaxLiteralLen == 3
\* widest field and largest precision of a printf instruction
MaxWidth == 3
\* most file handles left open
MaxHandles == 2
\* longest raw instruction list drawn for the halting specification
MaxHaltLen == 3

(***************************************************************************)
(* JavaScript values.                                                      *)
(***************************************************************************)
Num(n) == [k |-> "int", n |-> n, s |-> <<>>]
NaN == [k |-> "nan", n |-> 0, s |-> <<>>]
Inf(sgn) == [k |-> "inf", n |-> sgn, s |-> <<>>]
Str(s) == [k |-> "str", n |-> 0, s |-> s]
Null == [k |-> "null", n |-> 0, s |-> <<>>]
Undefined == [k |-> "undef", n |-> 0, s |-> <<>>]
Bool(b) == [k |-> "bool", n |-> IF b THEN 1 ELSE 0, s |-> <<>>]
Obj == [k |-> "object", n |-> 0, s |-> <<>>]

typeof(v) ==
    CASE v.k \in {"int", "nan", "inf"} -> "number"
      [] v.k = "str" -> "string"
      [] v.k = "undef" -> "undefined"
      [] v.k = "bool" -> "boolean"
      [] OTHER -> "object"

\* ToBoolean: what `if (v)`, `!v`, `a && b` test
Truthy(v) ==
    CASE v.k = "int" -> v.n # 0
      [] v.k = "str" -> Len(v.s) > 0
      [] v.k = "bool" -> v.n = 1
      [] v.k \in {"inf", "object"} -> TRUE
      [] OTHER -> FALSE

(***************************************************************************)
(* handleEscapes: the replace passes applied to literal text, in the order *)
(* of the source.  A pass scans from the left and resumes after a match.   *)
(***************************************************************************)
ChrCaret == 94
ChrBackslash == 92

\* the characters the pattern . does not match
LineTerminators == {10, 13, 8232, 8233}

IsDigit(c) == c \in 48..57

\* String.fromCharCode(n): ToUint16 of the number
fromCharCode(n) == <<IF n.k = "int" THEN n.n % 65536 ELSE 0>>

\* m === "?" ? 0x7F : m.charCodeAt(0) & 0x1F
ControlCode(m) == IF m = 63 THEN 127 ELSE m % 32

\* .replace(/\^(.)/g, ...)
RECURSIVE replaceCaret(_, _)
replaceCaret(s, i) ==
    IF i > Len(s) THEN <<>>
    ELSE IF s[i] = ChrCaret /\ i < Len(s) /\ s[i + 1] \notin LineTerminators
         THEN fromCharCode(Num(ControlCode(s[i + 1]))) \o replaceCaret(s, i + 2)
    ELSE <<s[i]>> \o replaceCaret(s, i + 1)

\* \d{1,3} at index i: the number of digits it takes
DigitRun(s, i) ==
    IF i > Len(s) \/ ~IsDigit(s[i]) THEN 0
    ELSE IF i + 1 > Len(s) \/ ~IsDigit(s[i + 1]) THEN 1
    ELSE IF i + 2 > Len(s) \/ ~IsDigit(s[i + 2]) THEN 2
    ELSE 3

\* parseInt(m, 8) on a string of digits: the digits up to the first that is
\* no octal digit, NaN when there is none
RECURSIVE parseOctal(_, _, _)
parseOctal(m, j, acc) ==
    IF j > Len(m) \/ m[j] \notin 48..55
    THEN IF j = 1 THEN NaN ELSE Num(acc)
    ELSE parseOctal(m, j + 1, acc * 8 + (m[j] - 48))

\* .replace(/\\(\d{1,3})/g, ...)
RECURSIVE replaceOctal(_, _)
replaceOctal(s, i) ==
    IF i > Len(s) THEN <<>>
    ELSE IF s[i] = ChrBackslash /\ DigitRun(s, i + 1) > 0
         THEN fromCharCode(parseOctal(SubSeq(s, i + 1, i + DigitRun(s, i + 1)), 1, 0))
              \o replaceOctal(s, i + 1 + DigitRun(s, i + 1))
    ELSE <<s[i]>> \o replaceOctal(s, i + 1)

\* .replace(/\\c/g, by) for the characters c of letters
RECURSIVE replaceEscape(_, _, _, _)
replaceEscape(s, i, letters, by) ==
    IF i > Len(s) THEN <<>>
    ELSE IF s[i] = ChrBackslash /\ i < Len(s) /\ s[i + 1] \in letters
         THEN by \o replaceEscape(s, i + 2, letters, by)
    ELSE <<s[i]>> \o replaceEscape(s, i + 1, letters, by)

\* .replace(/\\^/g, "^"): a backslash followed by the assertion ^, which holds
\* at the start of the input only; i is the 0-based index after s[i]
RECURSIVE replaceAnchor(_, _)
replaceAnchor(s, i) ==
    IF i > Len(s) THEN <<>>
    ELSE IF s[i] = ChrBackslash /\ i = 0
         THEN <<ChrCaret>> \o replaceAnchor(s, i + 1)
    ELSE <<s[i]>> \o replaceAnchor(s, i + 1)

handleEscapes(s) ==
    replaceEscape(
     replaceEscape(
      replaceEscape(
       replaceAnchor(
        replaceEscape(
         replaceEscape(
          replaceEscape(
           replaceEscape(
            replaceEscape(
             replaceEscape(
              replaceEscape(
               replaceEscape(
                replaceOctal(
                 replaceCaret(s, 1), 1),
                1, {69, 101}, <<27>>),
               1, {110}, <<13, 10>>),
              1, {108}, <<10>>),
             1, {114}, <<13>>),
            1, {116}, <<9>>),
           1, {98}, <<8>>),
          1, {102}, <<12>>),
         1, {115}, <<32>>),
        1),
       1, {92}, <<92>>),
      1, {44}, <<44>>),
     1, {58}, <<58>>)

(***************************************************************************)
(* Instructions.  A record carries every field; the fields an opcode does  *)
(* not use keep the value below and are never read.                        *)
(***************************************************************************)
Instruction(opcode) ==
    [opcode |-> opcode, str |-> <<>>, time |-> 0, proportional |-> FALSE,
     force |-> FALSE, format |-> "", zeroPad |-> FALSE, alternateForm |-> FALSE,
     leftJustify |-> FALSE, positiveSignBlank |-> FALSE, sign |-> FALSE,
     width |-> 0, precision |-> 0, index |-> 0, name |-> "", value |-> 0,
     position |-> 0]

\* a JavaScript value that is no Instruction: its .opcode is undefined
NotAnInstruction == Instruction("undefined")

\* faulty variant: the text is stored as written
genOutUnescaped(s) == [Instruction("OUT") EXCEPT !.str = s]

genOut(s) == [Instruction("OUT") EXCEPT !.str = handleEscapes(s)]
genParam(i) == [Instruction("PUSH_PARAM") EXCEPT !.index = i]
genSetVar(name) == [Instruction("SET_VAR") EXCEPT !.name = name]
genPushVar(name) == [Instruction("PUSH_VAR") EXCEPT !.name = name]
genConstant(n) == [Instruction("CONSTANT") EXCEPT !.value = n]
genPrint(format) == [Instruction("PRINT") EXCEPT !.format = format]

BEGIN_IF == Instruction("TI_FLOW_BEGIN_IF")
THEN_ == Instruction("TI_FLOW_THEN")
ELSE_IF == Instruction("TI_FLOW_ELSE_IF")
END_IF == Instruction("TI_FLOW_END_IF")

NonEmptyMatch(m) == Len(m.match) > 0

\* the loop of inverseMatch and the push after it; k is the match at hand
\* and i the 0-based index reached
RECURSIVE inverseMatchLoop(_, _, _, _)
inverseMatchLoop(s, matches, k, i) ==
    IF k > Len(matches)
    THEN IF i < Len(s) THEN <<[index |-> i, match |-> SubSeq(s, i + 1, Len(s))]>>
         ELSE <<>>
    ELSE <<[index |-> i, match |-> SubSeq(s, i + 1, matches[k].index)]>>
         \o inverseMatchLoop(s, matches, k + 1,
                (IF matches[k].index > i THEN matches[k].index ELSE i)
                + Len(matches[k].match))

\* inverseMatch(s, matches): the text the matches leave out
inverseMatch(s, matches) ==
    IF Len(matches) = 0 THEN <<[index |-> 0, match |-> s]>>
    ELSE SelectSeq(inverseMatchLoop(s, matches, 1, 0), NonEmptyMatch)

\* rawResult of compile(s) for a text INSN_REGEX matches nowhere: every
\* alternative of the pattern starts with % or with $<
rawResult(s) ==
    LET all == inverseMatch(s, <<>>) IN
    [j \in 1..Len(all) |-> genOut(all[j].match)]


(***************************************************************************)
(* convertFC: flow-control markers to relative jumps.                      *)
(* The result is one of                                                    *)
(*   kind "array": the plain result array (loop ran to the end),           *)
(*   kind "pair":  [i + 1, result], returned at an END_IF marker,          *)
(*   kind "throw": an exception, named in error.                           *)
(* chainJumpIndex = -1 stands for undefined.                               *)
(***************************************************************************)
FCArray(result) == [kind |-> "array", skip |-> 0, block |-> result, error |-> "none"]
FCPair(skip, result) == [kind |-> "pair", skip |-> skip, block |-> result, error |-> "none"]
FCThrow(e) == [kind |-> "throw", skip |-> 0, block |-> <<>>, error |-> e]

\* endJumpPos.map(pos => pos + n)
MapAdd(seq, n) == [j \in DOMAIN seq |-> seq[j] + n]

\* result[idx].position = pos   (idx 0-based)
SetPosition(result, idx, pos) == [result EXCEPT ![idx + 1].position = pos]

\* faulty variant: ELSE_IF counts the JUMP it emits twice
ElseIfPositionTwice(chainJumpPos) == chainJumpPos + 2

\* offset stored in the JUMP_ZERO closed by an ELSE_IF marker
ElseIfPosition(chainJumpPos) == chainJumpPos + 1

\* faulty variant: END_IF counts a JUMP that is not emitted
EndIfPositionPlusOne(chainJumpPos) == chainJumpPos + 1

\* offset stored in the JUMP_ZERO closed by the END_IF marker
EndIfPosition(chainJumpPos) == chainJumpPos

RECURSIVE PatchEndJumps(_, _, _, _)
PatchEndJumps(result, endJumpIndices, endJumpPos, j) ==
    IF j > Len(endJumpIndices) THEN result
    ELSE PatchEndJumps(SetPosition(result, endJumpIndices[j], endJumpPos[j]),
                       endJumpIndices, endJumpPos, j + 1)

\* the error thrown when the recursive call returned no [skip, block] pair
UnterminatedError == "ParseError"

RECURSIVE convertFCLoop(_, _)
RECURSIVE convertFC(_)
convertFCLoop(instructions, st) ==
    IF st.i >= Len(instructions) THEN FCArray(st.result)
    ELSE
    LET insn == instructions[st.i + 1] IN
    CASE insn.opcode = "TI_FLOW_BEGIN_IF" ->
           LET r == convertFC(SubSeq(instructions, st.i + 2, Len(instructions))) IN
           IF r.kind = "throw" THEN r
           ELSE IF r.kind # "pair" THEN FCThrow(UnterminatedError)
           ELSE convertFCLoop(instructions,
                  [st EXCEPT !.result = @ \o r.block,
                             !.chainJumpPos = @ + Len(r.block),
                             !.endJumpPos = MapAdd(@, Len(r.block)),
                             !.i = st.i + r.skip + 1])
      [] insn.opcode = "TI_FLOW_THEN" ->
           convertFCLoop(instructions,
                  [st EXCEPT !.result = Append(@, Instruction("JUMP_ZERO")),
                             !.chainJumpPos = 0,
                             !.chainJumpIndex = Len(st.result),
                             !.endJumpPos = MapAdd(@, 1),
                             !.i = @ + 1])
      [] insn.opcode = "TI_FLOW_ELSE_IF" ->
           IF st.chainJumpIndex = -1 THEN FCThrow("TypeError")
           ELSE convertFCLoop(instructions,
                  [st EXCEPT !.result = Append(SetPosition(@, st.chainJumpIndex,
                                                 ElseIfPosition(st.chainJumpPos)),
                                               Instruction("JUMP")),
                             !.chainJumpIndex = -1,
                             !.endJumpPos = Append(MapAdd(@, 1), 0),
                             !.endJumpIndices = Append(@, Len(st.result)),
                             !.i = @ + 1])
      [] insn.opcode = "TI_FLOW_END_IF" ->
           LET chained == IF st.chainJumpIndex # -1
                          THEN SetPosition(st.result, st.chainJumpIndex,
                                           EndIfPosition(st.chainJumpPos))
                          ELSE st.result
           IN FCPair(st.i + 1,
                     PatchEndJumps(chained, st.endJumpIndices, st.endJumpPos, 1))
      [] OTHER ->
           convertFCLoop(instructions,
                  [st EXCEPT !.chainJumpPos = @ + 1,
                             !.endJumpPos = MapAdd(@, 1),
                             !.result = Append(@, insn),
                             !.i = @ + 1])

convertFC(instructions) ==
    convertFCLoop(instructions,
        [i |-> 0, result |-> <<>>, endJumpIndices |-> <<>>, endJumpPos |-> <<>>,
         chainJumpIndex |-> -1, chainJumpPos |-> 0])

(***************************************************************************)
(* Number conversions of the JavaScript runtime, on the values above.      *)
(* Integers of the model stay far inside the int32 range, so ToInt32 is    *)
(* the identity on them; -0 is not told apart from 0.                      *)
(***************************************************************************)
Abs(n) == IF n < 0 THEN -n ELSE n

Chr0 == 48
ChrMinus == 45
ChrPlus == 43
ChrSpace == 32

IsDigits(s) == \A j \in DOMAIN s : s[j] \in 48..57

RECURSIVE DecimalValue(_)
DecimalValue(s) ==
    IF Len(s) = 0 THEN 0
    ELSE 10 * DecimalValue(SubSeq(s, 1, Len(s) - 1)) + (s[Len(s)] - 48)

\* ToNumber, for the strings of the model: empty, decimal digits, or other text
ToNumber(v) ==
    CASE v.k \in {"int", "nan", "inf"} -> v
      [] v.k = "str" -> IF IsDigits(v.s) THEN Num(DecimalValue(v.s)) ELSE NaN
      [] v.k = "null" -> Num(0)
      [] v.k = "bool" -> Num(v.n)
      [] OTHER -> NaN

\* ToInt32, the operand conversion of & | ^ ~
ToInt32(v) == IF v.k = "int" THEN v.n ELSE 0

DigitChar(d, uppercase) ==
    IF d < 10 THEN 48 + d ELSE IF uppercase THEN 55 + d ELSE 87 + d

RECURSIVE Digits(_, _, _)
Digits(n, radix, uppercase) ==
    IF n < radix THEN <<DigitChar(n, uppercase)>>
    ELSE Digits(n \div radix, radix, uppercase) \o <<DigitChar(n % radix, uppercase)>>

\* n.toString(radix), then toUpperCase() when uppercase
NumberToString(v, radix, uppercase) ==
    CASE v.k = "int" ->
           (IF v.n < 0 THEN <<ChrMinus>> ELSE <<>>) \o Digits(Abs(v.n), radix, uppercase)
      [] v.k = "nan" -> IF uppercase THEN <<78, 65, 78>> ELSE <<78, 97, 78>>
      [] OTHER ->
           (IF v.n < 0 THEN <<ChrMinus>> ELSE <<>>) \o
           (IF uppercase THEN <<73, 78, 70, 73, 78, 73, 84, 89>>
            ELSE <<73, 110, 102, 105, 110, 105, 116, 121>>)

\* n < 0 and n > -1 on a number value
IsNegative(v) == v.k \in {"int", "inf"} /\ v.n < 0
GreaterThanMinusOne(v) == v.k \in {"int", "inf"} /\ v.n > -1

Repeat(c, n) == [j \in 1..(IF n > 0 THEN n ELSE 0) |-> c]

Includes(s, c) == \E j \in DOMAIN s : s[j] = c

\* w[0] === "0"
LeadingZero(w) == Len(w) > 0 /\ w[1] = Chr0

\* genPrint(g) for the groups of a match of the printf alternative: strings,
\* or Undefined for a group that took no part in the match
genPrintGroups(g) ==
    [Instruction("PRINT") EXCEPT
        !.format = g.print_format,
        !.zeroPad = g.print_width # Undefined /\ LeadingZero(g.print_width.s),
        !.width = IF g.print_width = Undefined THEN 0
                  ELSE IF LeadingZero(g.print_width.s)
                       THEN DecimalValue(Tail(g.print_width.s))
                  ELSE DecimalValue(g.print_width.s),
        !.precision = IF g.print_precision = Undefined THEN 0
                      ELSE DecimalValue(g.print_precision.s),
        !.alternateForm = g.print_flags # Undefined /\ Includes(g.print_flags.s, 35),
        !.leftJustify = g.print_flags # Undefined /\ Includes(g.print_flags.s, ChrMinus),
        !.positiveSignBlank = g.print_flags # Undefined /\ Includes(g.print_flags.s, ChrSpace),
        !.sign = g.print_flags # Undefined /\ Includes(g.print_flags.s, ChrPlus)]

(***************************************************************************)
(* The printf-style formatter.                                             *)
(***************************************************************************)
\* the text being formatted: the prefix and the digits s
fmtStart(n, radix, uppercase, prefix) ==
    [prefix |-> prefix, s |-> NumberToString(n, radix, uppercase)]

\* if (n < 0): the sign moves from the digits to the prefix
fmtNegative(f, n) ==
    IF IsNegative(n) THEN [prefix |-> <<ChrMinus>> \o f.prefix, s |-> Tail(f.s)] ELSE f

\* the octal prefix is cancelled when the precision gives zeroes
fmtCancelOctal(f, radix) ==
    IF f.s[1] = Chr0 /\ radix = 8 /\ Len(f.prefix) > 0 /\ f.prefix[Len(f.prefix)] = Chr0
    THEN [f EXCEPT !.prefix = SubSeq(@, 1, Len(@) - 1)]
    ELSE f

\* if (insn.precision > 0 && s.length < insn.precision)
fmtPrecision(f, insn, radix) ==
    IF insn.precision > 0 /\ Len(f.s) < insn.precision
    THEN fmtCancelOctal([f EXCEPT !.s = Repeat(Chr0, insn.precision - Len(@)) \o @], radix)
    ELSE f

\* if (insn.positiveSignBlank && !insn.sign && n > -1)
fmtBlank(f, insn, n) ==
    IF insn.positiveSignBlank /\ ~insn.sign /\ GreaterThanMinusOne(n)
    THEN [f EXCEPT !.prefix = <<ChrSpace>> \o @] ELSE f

\* if (insn.sign && n > -1)
fmtPlus(f, insn, n) ==
    IF insn.sign /\ GreaterThanMinusOne(n) THEN [f EXCEPT !.prefix = <<ChrPlus>> \o @] ELSE f

\* the padding to insn.width
fmtJustify(f, insn, space) ==
    IF space < 1 THEN f.prefix \o f.s
    ELSE IF insn.leftJustify THEN f.prefix \o f.s \o Repeat(ChrSpace, space)
    ELSE IF ~insn.zeroPad THEN Repeat(ChrSpace, space) \o f.prefix \o f.s
    ELSE f.prefix \o Repeat(Chr0, space) \o f.s

fmtWidth(f, insn) == fmtJustify(f, insn, insn.width - (Len(f.prefix) + Len(f.s)))

fmtNumericCommon(insn, n, radix, uppercase, prefix) ==
    fmtWidth(
        fmtPlus(
            fmtBlank(
                fmtPrecision(fmtNegative(fmtStart(n, radix, uppercase, prefix), n),
                             insn, radix),
                insn, n),
            insn, n),
        insn)

fmtd(insn, n) == fmtNumericCommon(insn, n, 10, FALSE, <<>>)

fmto(insn, n) ==
    fmtNumericCommon(insn, n, 8, FALSE,
        IF insn.alternateForm /\ n.k \in {"int", "inf"} /\ n.n > 0 THEN <<Chr0>> ELSE <<>>)

fmtx(insn, uppercase, n) ==
    fmtNumericCommon(insn, n, 16, uppercase,
        IF insn.alternateForm THEN (IF uppercase THEN <<Chr0, 88>> ELSE <<Chr0, 120>>)
        ELSE <<>>)

fmts(insn, s) ==
    LET t == IF insn.precision # 0 /\ insn.precision < Len(s)
             THEN SubSeq(s, 1, insn.precision) ELSE s
        space == insn.width - Len(t)
    IN  IF insn.width < 1 \/ space < 1 THEN t
        ELSE IF insn.leftJustify THEN t \o Repeat(ChrSpace, space)
        ELSE Repeat(ChrSpace, space) \o t

(***************************************************************************)
(* Arithmetic of the stack machine on number values.                       *)
(***************************************************************************)
Negate(v) == IF v.k = "nan" THEN v ELSE [v EXCEPT !.n = -v.n]

Sign(v) == IF v.n < 0 THEN -1 ELSE IF v.n > 0 THEN 1 ELSE 0

jsAdd(a, b) ==
    CASE a.k = "nan" \/ b.k = "nan" -> NaN
      [] a.k = "inf" /\ b.k = "inf" -> IF a.n = b.n THEN a ELSE NaN
      [] a.k = "inf" -> a
      [] b.k = "inf" -> b
      [] OTHER -> Num(a.n + b.n)

jsSubtract(a, b) == jsAdd(a, Negate(b))

jsMultiply(a, b) ==
    CASE a.k = "nan" \/ b.k = "nan" -> NaN
      [] a.k = "inf" \/ b.k = "inf" ->
           IF Sign(a) * Sign(b) = 0 THEN NaN ELSE Inf(Sign(a) * Sign(b))
      [] OTHER -> Num(a.n * b.n)

FloorDiv(a, b) == IF b > 0 THEN a \div b ELSE (-a) \div (-b)

\* Math.floor(a / b)
jsFloorDivide(a, b) ==
    CASE a.k = "nan" \/ b.k = "nan" -> NaN
      [] a.k = "inf" /\ b.k = "inf" -> NaN
      [] a.k = "inf" -> Inf(IF b.n < 0 THEN -a.n ELSE a.n)
      [] b.k = "inf" -> Num(IF Sign(a) * Sign(b) < 0 THEN -1 ELSE 0)
      [] b.n = 0 -> IF a.n = 0 THEN NaN ELSE Inf(Sign(a))
      [] OTHER -> Num(FloorDiv(a.n, b.n))

\* a % b: the remainder keeps the sign of the dividend
jsModulo(a, b) ==
    CASE a.k = "nan" \/ b.k = "nan" -> NaN
      [] a.k = "inf" -> NaN
      [] b.k = "inf" -> a
      [] b.n = 0 -> NaN
      [] OTHER -> Num(IF a.n < 0 THEN -(Abs(a.n) % Abs(b.n)) ELSE a.n % Abs(b.n))

\* one bit of & | ^
BitOf(op, x, y) ==
    CASE op = "AND" -> x * y
      [] op = "OR" -> IF x + y > 0 THEN 1 ELSE 0
      [] OTHER -> IF x # y THEN 1 ELSE 0

\* & | ^ on two's-complement integers: 0 and -1 are the all-zero and all-one words
RECURSIVE Bitwise(_, _, _)
Bitwise(op, a, b) ==
    IF a \in {0, -1} /\ b \in {0, -1}
    THEN -BitOf(op, -a, -b)
    ELSE BitOf(op, a % 2, b % 2) + 2 * Bitwise(op, a \div 2, b \div 2)

jsBitwise(op, a, b) == Num(Bitwise(op, ToInt32(a), ToInt32(b)))

jsBitNot(a) == Num(-ToInt32(a) - 1)

\* a === b
StrictEqual(a, b) == a.k # "nan" /\ a = b

RECURSIVE StringLess(_, _)
StringLess(s, t) ==
    IF Len(t) = 0 THEN FALSE
    ELSE IF Len(s) = 0 THEN TRUE
    ELSE IF s[1] # t[1] THEN s[1] < t[1]
    ELSE StringLess(Tail(s), Tail(t))

NumberLess(a, b) ==
    CASE a.k = "nan" \/ b.k = "nan" -> FALSE
      [] a.k = "inf" /\ b.k = "inf" -> a.n < b.n
      [] a.k = "inf" -> a.n < 0
      [] b.k = "inf" -> b.n > 0
      [] OTHER -> a.n < b.n

\* a < b: two strings compare by code units, anything else as numbers
jsLess(a, b) ==
    IF a.k = "str" /\ b.k = "str" THEN StringLess(a.s, b.s)
    ELSE NumberLess(ToNumber(a), ToNumber(b))

\* x++ on a parameter slot
Increment(v) == jsAdd(ToNumber(v), Num(1))

(***************************************************************************)
(* The stack machine.  A machine record m holds what one call works on:    *)
(* the Program's own fields and the three objects it reaches by reference. *)
(* error # "none" records the exception that ended the call; the fields    *)
(* keep what the code had changed before it threw.                         *)
(***************************************************************************)
Lower == {"a", "b", "c", "d", "e", "f", "g", "h", "i", "j", "k", "l", "m",
          "n", "o", "p", "q", "r", "s", "t", "u", "v", "w", "x", "y", "z"}
Upper == {"A", "B", "C", "D", "E", "F", "G", "H", "I", "J", "K", "L", "M",
          "N", "O", "P", "Q", "R", "S", "T", "U", "V", "W", "X", "Y", "Z"}

\* insn.name === insn.name.toLowerCase()
IsLowerCase(name) == name \in Lower

\* faulty variant: the typed pop does not look at the kind of the value
PopUntyped(stk, type) ==
    IF Len(stk) < 1
    THEN [stack |-> stk, out |-> Undefined, error |-> "RuntimeError"]
    ELSE [stack |-> SubSeq(stk, 1, Len(stk) - 1), out |-> stk[Len(stk)], error |-> "none"]

\* Program.#pop(type); type "any" is the call without argument
Pop(stk, type) ==
    IF Len(stk) < 1
    THEN [stack |-> stk, out |-> Undefined, error |-> "RuntimeError"]
    ELSE LET out == stk[Len(stk)] IN
         [stack |-> SubSeq(stk, 1, Len(stk) - 1), out |-> out,
          error |-> IF type # "any" /\ typeof(out) # type THEN "TypeError" ELSE "none"]

Thrown(m, popped) == [m EXCEPT !.stack = popped.stack, !.error = popped.error]

\* Program.#output(s)
Output(m, s) == [m EXCEPT !.output = @ \o s]

FromBoolean(b) == IF b THEN Num(1) ELSE Num(0)

\* the register a SET_VAR writes
StoreVar(m, name, v) ==
    IF IsLowerCase(name)
    THEN [m EXCEPT !.dynamicRegisters[name] = v]
    ELSE [m EXCEPT !.staticRegisters[name] = v]

\* faulty variant: an uppercase name reads the default, not the Terminal's register
LoadVarDefault(m, name) ==
    IF IsLowerCase(name) THEN m.dynamicRegisters[name] ELSE Null

\* the register a PUSH_VAR reads
LoadVar(m, name) ==
    IF IsLowerCase(name) THEN m.dynamicRegisters[name] ELSE m.staticRegisters[name]

\* this.params[index - 1]
ParamAt(params, index) ==
    IF index \in 1..Len(params) THEN params[index] ELSE Undefined

\* JUMP_ZERO's test of the popped value
IsZero(v) == v = Num(0) \/ v = Str(<<>>)

\* the text a PRINT writes for the value it popped
Formatted(insn, v) ==
    CASE insn.format = "c" -> fromCharCode(v)
      [] insn.format = "d" -> fmtd(insn, v)
      [] insn.format = "o" -> fmto(insn, v)
      [] insn.format = "x" -> fmtx(insn, FALSE, v)
      [] insn.format = "X" -> fmtx(insn, TRUE, v)
      [] OTHER -> fmts(insn, v.s)

\* what a handler that pops one value does with it
ApplyPopped(m, insn, v) ==
    CASE insn.opcode = "PRINT" -> Output(m, Formatted(insn, v))
      [] insn.opcode = "SET_VAR" -> StoreVar(m, insn.name, v)
      [] insn.opcode = "STRLEN" -> [m EXCEPT !.stack = Append(@, v)]
      [] insn.opcode = "NOT" -> [m EXCEPT !.stack = Append(@, jsBitNot(v))]
      [] insn.opcode = "CMP_NOT" -> [m EXCEPT !.stack = Append(@, FromBoolean(~Truthy(v)))]
      [] OTHER -> \* JUMP_ZERO
           IF IsZero(v) THEN [m EXCEPT !.programCounter = @ + insn.position] ELSE m

\* what a handler that pops op1 and then its left operand pushes
Combined(opcode, a, b) ==
    CASE opcode = "ADD" -> jsAdd(a, b)
      [] opcode = "SUBTRACT" -> jsSubtract(a, b)
      [] opcode = "MULTIPLY" -> jsMultiply(a, b)
      [] opcode = "DIVIDE" -> jsFloorDivide(a, b)
      [] opcode = "MODULO" -> jsModulo(a, b)
      [] opcode \in {"AND", "OR", "XOR"} -> jsBitwise(opcode, a, b)
      [] opcode = "CMP_EQUAL" -> FromBoolean(StrictEqual(a, b))
      [] opcode = "CMP_GREATER" -> FromBoolean(jsLess(b, a))
      [] opcode = "CMP_LESS" -> FromBoolean(jsLess(a, b))
      [] opcode = "CMP_AND" -> ToNumber(IF Truthy(a) THEN b ELSE a)
      [] OTHER -> \* CMP_OR
           ToNumber(IF Truthy(a) THEN a ELSE b)

\* a handler that pops one value of the type and applies it
PopThen(m, type, insn) ==
    LET p1 == Pop(m.stack, type) IN
    IF p1.error # "none" THEN Thrown(m, p1)
    ELSE ApplyPopped([m EXCEPT !.stack = p1.stack], insn, p1.out)

\* the second pop of a handler that pops two values, and its push
PopLeftPush(m, type, opcode, p1) ==
    LET p2 == Pop(p1.stack, type) IN
    IF p2.error # "none" THEN Thrown(m, p2)
    ELSE [m EXCEPT !.stack = Append(p2.stack, Combined(opcode, p2.out, p1.out))]

\* a handler that pops op1, then its left operand, and pushes the result
PopTwoPush(m, type, opcode) ==
    LET p1 == Pop(m.stack, type) IN
    IF p1.error # "none" THEN Thrown(m, p1) ELSE PopLeftPush(m, type, opcode, p1)

rtPrint(m, insn) ==
    CASE insn.format \in {"c", "d", "o", "x", "X"} -> PopThen(m, "number", insn)
      [] insn.format = "s" -> PopThen(m, "string", insn)
      [] OTHER -> m

\* the opcodes of the #rt table
RuntimeOpcodes ==
    {"OUT", "DELAY", "PRINT", "PUSH_PARAM", "SET_VAR", "PUSH_VAR", "CONSTANT",
     "STRLEN", "PARAM_INC", "ADD", "SUBTRACT", "MULTIPLY", "DIVIDE", "MODULO",
     "AND", "OR", "XOR", "NOT", "CMP_EQUAL", "CMP_GREATER", "CMP_LESS",
     "CMP_AND", "CMP_OR", "CMP_NOT", "JUMP_ZERO", "JUMP"}

\* this.#rt[insn.opcode.value](insn)
rt(m, insn) ==
    LET op == insn.opcode IN
    CASE op = "OUT" -> Output(m, insn.str)
      [] op = "DELAY" -> m
      [] op = "PRINT" -> rtPrint(m, insn)
      [] op = "PUSH_PARAM" ->
           [m EXCEPT !.stack = Append(@, ParamAt(m.params, insn.index))]
      [] op = "SET_VAR" -> PopThen(m, "any", insn)
      [] op = "PUSH_VAR" ->
           [m EXCEPT !.stack = Append(@, LoadVar(m, insn.name))]
      [] op = "CONSTANT" -> [m EXCEPT !.stack = Append(@, Num(insn.value))]
      [] op = "STRLEN" -> PopThen(m, "string", insn)
      [] op = "PARAM_INC" ->
           [m EXCEPT !.params[1] = Increment(@), !.params[2] = Increment(@)]
      [] op \in {"ADD", "SUBTRACT", "MULTIPLY", "DIVIDE", "MODULO", "AND", "OR", "XOR"} ->
           PopTwoPush(m, "number", op)
      [] op = "NOT" -> PopThen(m, "number", insn)
      [] op \in {"CMP_EQUAL", "CMP_GREATER", "CMP_LESS", "CMP_AND", "CMP_OR"} ->
           PopTwoPush(m, "any", op)
      [] op \in {"CMP_NOT", "JUMP_ZERO"} -> PopThen(m, "any", insn)
      [] op = "JUMP" -> [m EXCEPT !.programCounter = @ + insn.position]
      [] OTHER -> m

\* this.#code[this.programCounter]; out of range reads undefined
Fetch(code, programCounter) ==
    IF programCounter \in 0..(Len(code) - 1) THEN code[programCounter + 1]
    ELSE NotAnInstruction

\* the program counter after an instruction that did not throw
Advance(programCounter) == programCounter + 1

\* Program.execInstruction(insn), insn fetched by the caller from code
execInstruction(m, code) ==
    LET insn == Fetch(code, m.programCounter) IN
    IF m.done THEN m
    ELSE IF insn.opcode \notin RuntimeOpcodes THEN [m EXCEPT !.error = "TypeError"]
    ELSE LET m1 == rt(m, insn) IN
         IF m1.error # "none" THEN m1
         ELSE [m1 EXCEPT !.programCounter = Advance(@),
                         !.done = (Advance(m1.programCounter) >= Len(code))]

\* while (!this.done) this.execInstruction(...), until it ends or throws
RECURSIVE RunLoop(_, _)
RunLoop(m, code) ==
    IF m.done \/ m.error # "none" THEN m
    ELSE RunLoop(execInstruction(m, code), code)

(***************************************************************************)
(* The terminfo decoder (src/terminfo.js).  A file is a sequence of bytes; *)
(* byte offsets keep the 0-based values of the source.  An entry record e  *)
(* is the Entry under construction together with its file handle: pos is   *)
(* the position of the handle, closed tells whether close() was called,    *)
(* error # "none" records the exception that ended the constructor, and    *)
(* reads lists the calls of #strictReadBytes as [block, pos, nbytes].      *)
(* A mapping (booleans, numbers, strings) is a function from names, which  *)
(* are strings, to values.  extStrTableArray tells whether #extStrTable is  *)
(* an array: it is undefined before it is read and the number 0 after a    *)
(* read of no bytes.                                                       *)
(***************************************************************************)
MAGIC == 282
MAGIC_32 == 542
HeaderSize == 12
ExtendedHeaderSize == 10

\* the remainder operator %: the sign of the result is that of the dividend
jsRemainder(a, b) == IF a < 0 THEN -((-a) % b) ELSE a % b

\* dv.getInt16(off, true)
getInt16(data, off) ==
    IF data[off + 2] >= 128
    THEN data[off + 1] + 256 * data[off + 2] - 65536
    ELSE data[off + 1] + 256 * data[off + 2]

\* dv.getInt32(off, true)
getInt32(data, off) ==
    data[off + 1] + 256 * data[off + 2] + 65536 * data[off + 3]
    + 16777216 * (IF data[off + 4] >= 128 THEN data[off + 4] - 256 ELSE data[off + 4])

\* the index of a relative position in an array of len elements
Relative(k, len) ==
    IF k < 0 THEN (IF len + k < 0 THEN 0 ELSE len + k)
    ELSE IF k > len THEN len ELSE k

\* data.slice(start, end) and data.subarray(start, end)
Slice(data, start, end) ==
    SubSeq(data, Relative(start, Len(data)) + 1, Relative(end, Len(data)))

\* data.indexOf(value, from)
IndexOf(data, value, from) ==
    LET found == {j \in Relative(from, Len(data))..(Len(data) - 1) : data[j + 1] = value} IN
    IF found = {} THEN -1 ELSE CHOOSE j \in found : \A i \in found : j <= i

\* new TextDecoder().decode(data): an ASCII byte is its character, a byte
\* from 0x80 on that starts no well-formed sequence is U+FFFD
decode(data) == [j \in DOMAIN data |-> IF data[j] < 128 THEN data[j] ELSE 65533]

\* obj[key] = value
Put(obj, key, value) ==
    [k \in DOMAIN obj \cup {key} |-> IF k = key THEN value ELSE obj[k]]

\* Caps.Booleans(i).key, Caps.Numbers(i).key, Caps.Strings(i).key: the name of
\* the i-th capability of each table, here b0 b1 .., n0 n1 .., s0 s1 ..
BooleanKey(i) == <<98, Chr0 + i>>
NumberKey(i) == <<110, Chr0 + i>>
StringKey(i) == <<115, Chr0 + i>>

NoHeader == [magic |-> 0, sizeNames |-> 0, nCapBool |-> 0, nCapNum |-> 0,
             nCapStr |-> 0, sizeStr |-> 0]

NoExtHeader == [nCapBool |-> 0, nCapNum |-> 0, nCapStr |-> 0, nStr |-> 0, sizeStr |-> 0]

\* the names of an entry; parts is the number of pieces of the split, and
\* detailed and synonyms are undefined below 2 and 3 pieces
NoNames == [parts |-> 0, brief |-> <<>>, detailed |-> <<>>, synonyms |-> <<>>]

\* Deno.openSync(path): the handle at position 0, no field of the Entry set
Opened(path, file) ==
    [path |-> path, file |-> file, pos |-> 0, closed |-> FALSE, error |-> "none",
     data |-> <<>>, zero |-> FALSE, reads |-> <<>>,
     header |-> NoHeader, numWidth |-> 0, names |-> NoNames,
     booleans |-> <<>>, numbers |-> <<>>, strings |-> <<>>,
     extended |-> FALSE, extHeader |-> NoExtHeader,
     extBool |-> <<>>, extNum |-> <<>>, extStr |-> <<>>,
     extStrTable |-> <<>>, extStrTableArray |-> FALSE,
     extStrOffsets |-> <<>>, extStrMissingTotal |-> 0]

Throw(e, error) == [e EXCEPT !.error = error]

\* this.#file.seekSync(n, Deno.SeekMode.Current)
Seek(e, n) == [e EXCEPT !.pos = @ + n]

\* faulty variant: a position at the size of the file is not its end
fileEndStrict(e) == e.pos > Len(e.file)

\* #fileEnd()
fileEnd(e) == e.pos >= Len(e.file)

\* the bytes readSync can deliver at the position of the handle
Available(e) == IF e.pos >= Len(e.file) THEN 0 ELSE Len(e.file) - e.pos

\* #strictReadBytes(nbytes), its result in data: new Uint8Array of a negative
\* length throws, a length of 0 returns the number 0 (zero), a read of fewer
\* bytes than asked moves the position and throws
strictReadBytes(e, nbytes, block) ==
    IF nbytes < 0 THEN Throw(e, "RangeError")
    ELSE IF nbytes = 0 THEN [e EXCEPT !.data = <<>>, !.zero = TRUE]
    ELSE IF Available(e) < nbytes
         THEN [e EXCEPT !.pos = @ + Available(e), !.error = "FormatError",
                        !.reads = Append(@, [block |-> block, pos |-> e.pos, nbytes |-> nbytes])]
    ELSE [e EXCEPT !.pos = @ + nbytes, !.zero = FALSE,
                   !.data = SubSeq(e.file, e.pos + 1, e.pos + nbytes),
                   !.reads = Append(@, [block |-> block, pos |-> e.pos, nbytes |-> nbytes])]

\* Magic(value) of enum.js: a value of the enumeration, else a TypeError
IsMagic(value) == value \in {MAGIC, MAGIC_32}

\* new Header(...) on the bytes read, and #numWidth
HeaderRead(e) ==
    IF ~IsMagic(getInt16(e.data, 0)) THEN Throw(e, "TypeError")
    ELSE [e EXCEPT !.header = [magic |-> getInt16(e.data, 0),
                               sizeNames |-> getInt16(e.data, 2),
                               nCapBool |-> getInt16(e.data, 4),
                               nCapNum |-> getInt16(e.data, 6),
                               nCapStr |-> getInt16(e.data, 8),
                               sizeStr |-> getInt16(e.data, 10)],
                  !.numWidth = 2 + (IF getInt16(e.data, 0) = MAGIC_32 THEN 1 ELSE 0) * 2]

\* a step of the constructor: nothing runs after an exception
Then(e, next) == IF e.error # "none" THEN e ELSE next

readHeader(e) ==
    Then(strictReadBytes(e, HeaderSize, "header"),
         HeaderRead(strictReadBytes(e, HeaderSize, "header")))

\* str.split(sep)
RECURSIVE Split(_, _)
Split(str, sep) ==
    IF IndexOf(str, sep, 0) < 0 THEN <<str>>
    ELSE <<SubSeq(str, 1, IndexOf(str, sep, 0))>>
         \o Split(SubSeq(str, IndexOf(str, sep, 0) + 2, Len(str)), sep)

\* new TermName(str), from the pieces of the split
TermNameOf(s) ==
    [parts |-> Len(s), brief |-> s[1],
     detailed |-> IF Len(s) < 2 THEN <<>> ELSE s[Len(s)],
     synonyms |-> IF Len(s) < 3 THEN <<>> ELSE SubSeq(s, 2, Len(s) - 1)]

TermName(str) == TermNameOf(Split(str, 124))

\* the number 0 has no subarray, buffer or indexOf
NamesRead(e) ==
    IF e.zero THEN Throw(e, "TypeError")
    ELSE [e EXCEPT !.names = TermName(decode(Slice(e.data, 0, -1)))]

readTermNames(e) ==
    Then(strictReadBytes(e, e.header.sizeNames, "names"),
         NamesRead(strictReadBytes(e, e.header.sizeNames, "names")))

\* the loop of #readBooleans from i on
RECURSIVE BooleansFrom(_, _, _, _)
BooleansFrom(booleans, data, i, n) ==
    IF i >= n THEN booleans
    ELSE BooleansFrom(IF data[i + 1] # 0 THEN Put(booleans, BooleanKey(i), TRUE)
                      ELSE booleans,
                      data, i + 1, n)

BooleansRead(e) ==
    [e EXCEPT !.booleans = BooleansFrom(<<>>, e.data, 0, e.header.nCapBool)]

BooleanPad(e) == jsRemainder(e.header.sizeNames + e.header.nCapBool, 2)

readBooleans(e) ==
    IF e.header.nCapBool = 0 THEN Seek(e, BooleanPad(e))
    ELSE Then(strictReadBytes(e, e.header.nCapBool + BooleanPad(e), "booleans"),
              BooleansRead(strictReadBytes(e, e.header.nCapBool + BooleanPad(e), "booleans")))

\* read(i * this.#numWidth, true)
ReadNumber(data, i, numWidth) ==
    IF numWidth = 4 THEN getInt32(data, i * numWidth) ELSE getInt16(data, i * numWidth)

\* the loop of #readNumbers from i on
RECURSIVE NumbersFrom(_, _, _, _, _)
NumbersFrom(numbers, data, i, n, numWidth) ==
    IF i >= n THEN numbers
    ELSE NumbersFrom(IF ReadNumber(data, i, numWidth) < 0 THEN numbers
                     ELSE Put(numbers, NumberKey(i), ReadNumber(data, i, numWidth)),
                     data, i + 1, n, numWidth)

NumbersRead(e) ==
    [e EXCEPT !.numbers = NumbersFrom(<<>>, e.data, 0, e.header.nCapNum, e.numWidth)]

readNumbers(e) ==
    IF e.header.nCapNum = 0 THEN e
    ELSE Then(strictReadBytes(e, e.header.nCapNum * e.numWidth, "numbers"),
              NumbersRead(strictReadBytes(e, e.header.nCapNum * e.numWidth, "numbers")))

\* the loop of #readStrings from i on; offs is the offset block, data the table
RECURSIVE StringsFrom(_, _, _, _, _)
StringsFrom(strings, offs, data, i, n) ==
    IF i >= n THEN strings
    ELSE StringsFrom(IF getInt16(offs, i * 2) < 0 THEN strings
                     ELSE Put(strings, StringKey(i),
                              decode(Slice(data, getInt16(offs, i * 2),
                                           IndexOf(data, 0, getInt16(offs, i * 2))))),
                     offs, data, i + 1, n)

\* a present string needs a table: the number 0 has no indexOf
NeedsTable(offs, n) == \E i \in 0..(n - 1) : getInt16(offs, i * 2) >= 0

\* the skip at the end of #readStrings
StringPad(e) ==
    IF jsRemainder(e.header.sizeStr, 2) # 0 /\ ~fileEnd(e) THEN Seek(e, 1) ELSE e

\* offs is the offset block, e the entry after the read of the table
StringsRead(offs, e) ==
    IF e.zero /\ NeedsTable(offs.data, e.header.nCapStr) THEN Throw(e, "TypeError")
    ELSE StringPad([e EXCEPT !.strings =
                        StringsFrom(<<>>, offs.data, e.data, 0, e.header.nCapStr)])

StringTable(offs) ==
    Then(strictReadBytes(offs, offs.header.sizeStr, "table"),
         StringsRead(offs, strictReadBytes(offs, offs.header.sizeStr, "table")))

readStrings(e) ==
    IF e.header.nCapStr = 0 THEN Seek(e, jsRemainder(e.header.sizeStr, 2))
    ELSE Then(strictReadBytes(e, e.header.nCapStr * 2, "offsets"),
              StringTable(strictReadBytes(e, e.header.nCapStr * 2, "offsets")))

\* new ExtendedHeader(...) on the bytes read
ExtHeaderRead(e) ==
    [e EXCEPT !.extended = TRUE,
              !.extHeader = [nCapBool |-> getInt16(e.data, 0),
                             nCapNum |-> getInt16(e.data, 2),
                             nCapStr |-> getInt16(e.data, 4),
                             nStr |-> getInt16(e.data, 6),
                             sizeStr |-> getInt16(e.data, 8)]]

readExtHeader(e) ==
    Then(strictReadBytes(e, ExtendedHeaderSize, "extHeader"),
         ExtHeaderRead(strictReadBytes(e, ExtendedHeaderSize, "extHeader")))

ExtBoolsRead(e) == [e EXCEPT !.extBool = Slice(e.data, 0, e.extHeader.nCapBool)]

ExtBoolPad(e) == jsRemainder(e.extHeader.nCapBool, 2)

readExtBools(e) ==
    IF e.extHeader.nCapBool = 0 THEN Seek(e, ExtBoolPad(e))
    ELSE Then(strictReadBytes(e, e.extHeader.nCapBool + ExtBoolPad(e), "extBooleans"),
              ExtBoolsRead(strictReadBytes(e, e.extHeader.nCapBool + ExtBoolPad(e), "extBooleans")))

\* faulty variant: the extended numbers are 16 bits wide
ExtNumWidthShort(e) == 2

\* the width #readExtNums reads with
ExtNumWidth(e) == e.numWidth

ExtNumsRead(e) ==
    [e EXCEPT !.extNum = [j \in 1..e.extHeader.nCapNum |->
                             ReadNumber(e.data, j - 1, ExtNumWidth(e))]]

readExtNums(e) ==
    IF e.extHeader.nCapNum = 0 THEN e
    ELSE Then(strictReadBytes(e, e.extHeader.nCapNum * ExtNumWidth(e), "extNumbers"),
              ExtNumsRead(strictReadBytes(e, e.extHeader.nCapNum * ExtNumWidth(e), "extNumbers")))

\* the offsets one pass pushes: those of the indices from .. to - 1 of offs
PassOffsets(offs, from, to) == [j \in 1..(to - from) |-> getInt16(offs, (from + j - 1) * 2)]

\* nMissing of a pass
Missing(offsets) == Cardinality({j \in DOMAIN offsets : offsets[j] < 0})

\* faulty variant: the loop ends after its first pass
NoMorePasses(e, offs, from, to) == e

\* the do-while loop of #readExtStrings after the for loop of a pass: e is
\* the entry with the offsets of the pass pushed, offs the offset bytes read
\* so far, to the end of the pass and missing its nMissing
RECURSIVE MorePasses(_, _, _, _)
ExtPass(e, offs, from, to) ==
    MorePasses([e EXCEPT !.extStrOffsets = @ \o PassOffsets(offs, from, to),
                         !.extStrMissingTotal = @ + Missing(PassOffsets(offs, from, to))],
               offs, to, Missing(PassOffsets(offs, from, to)))

MissingRead(e, offs, to, missing) ==
    Then(e, ExtPass(e, offs \o e.data, to, to + missing))

MorePasses(e, offs, to, missing) ==
    IF missing = 0 THEN e
    ELSE MissingRead(strictReadBytes(e, missing * 2, "extOffsets"), offs, to, missing)

\* this.#extStrOffsets[i]: undefined past the end, which indexOf and subarray
\* take as 0 and which is not below 0
OffsetAt(offsets, i) == IF i < Len(offsets) THEN offsets[i + 1] ELSE 0

\* the loop over the values of #readExtStrings from i on; acc holds extStr
\* and capsEnd
RECURSIVE ExtValuesFrom(_, _, _, _, _)
ExtValuesFrom(acc, offsets, table, i, n) ==
    IF i >= n THEN acc
    ELSE IF OffsetAt(offsets, i) < 0
         THEN ExtValuesFrom([acc EXCEPT !.extStr = Append(@, <<65, 66, 83, 69, 78, 84>>)],
                            offsets, table, i + 1, n)
    ELSE ExtValuesFrom(
            [extStr |-> Append(acc.extStr,
                               decode(Slice(table, OffsetAt(offsets, i),
                                            IndexOf(table, 0, OffsetAt(offsets, i))))),
             capsEnd |-> IndexOf(table, 0, OffsetAt(offsets, i))],
            offsets, table, i + 1, n)

\* the loop that adds capsEnd + 1 to the offsets of the indices from .. to - 1
Rebased(offsets, from, to, capsEnd) ==
    [j \in DOMAIN offsets |->
        IF j - 1 >= from /\ j - 1 < to THEN offsets[j] + capsEnd + 1 ELSE offsets[j]]

\* a value that is present needs the table to be an array
NeedsExtTable(offsets, n) == \E i \in 0..(n - 1) : OffsetAt(offsets, i) >= 0

ExtValues(e, acc) ==
    [e EXCEPT !.extStr = acc.extStr,
              !.extStrOffsets = Rebased(@, e.extHeader.nCapStr,
                                        e.extHeader.nStr + e.extStrMissingTotal,
                                        acc.capsEnd)]

\* e is the entry after the read of the table
ExtTableRead(e) ==
    IF e.zero /\ NeedsExtTable(e.extStrOffsets, e.extHeader.nCapStr)
    THEN Throw([e EXCEPT !.extStrTableArray = FALSE], "TypeError")
    ELSE ExtValues([e EXCEPT !.extStrTable = e.data, !.extStrTableArray = ~e.zero],
                   ExtValuesFrom([extStr |-> <<>>, capsEnd |-> 0], e.extStrOffsets,
                                 e.data, 0, e.extHeader.nCapStr))

ExtTable(e) ==
    Then(e, Then(strictReadBytes(e, e.extHeader.sizeStr, "extTable"),
                 ExtTableRead(strictReadBytes(e, e.extHeader.sizeStr, "extTable"))))

ExtOffsetsRead(e) == ExtTable(ExtPass(e, e.data, 0, e.extHeader.nStr))

readExtStrings(e) ==
    IF e.extHeader.nStr = 0 THEN e
    ELSE Then(strictReadBytes(e, e.extHeader.nStr * 2, "extOffsets"),
              ExtOffsetsRead(strictReadBytes(e, e.extHeader.nStr * 2, "extOffsets")))

\* the name that starts at off in the extended string table
NameAt(e, off) == decode(Slice(e.extStrTable, off, IndexOf(e.extStrTable, 0, off)))

\* the three loops of #readExtNames, each from i on
RECURSIVE ExtBooleanNames(_, _)
ExtBooleanNames(e, i) ==
    IF i >= e.extHeader.nCapBool THEN e
    ELSE IF ~e.extStrTableArray THEN Throw(e, "TypeError")
    ELSE ExtBooleanNames(
            [e EXCEPT !.booleans =
                Put(@, NameAt(e, OffsetAt(e.extStrOffsets, e.extHeader.nCapStr + i)),
                    e.extBool[i + 1] # 0)],
            i + 1)

RECURSIVE ExtNumberNames(_, _)
ExtNumberNames(e, i) ==
    IF i >= e.extHeader.nCapNum THEN e
    ELSE IF ~e.extStrTableArray THEN Throw(e, "TypeError")
    ELSE ExtNumberNames(
            [e EXCEPT !.numbers =
                Put(@, NameAt(e, OffsetAt(e.extStrOffsets,
                                          e.extHeader.nCapStr + e.extHeader.nCapBool + i)),
                    e.extNum[i + 1])],
            i + 1)

RECURSIVE ExtStringNames(_, _)
ExtStringNames(e, i) ==
    IF i >= e.extHeader.nCapStr THEN e
    ELSE IF OffsetAt(e.extStrOffsets, i) < 0 THEN ExtStringNames(e, i + 1)
    ELSE IF ~e.extStrTableArray THEN Throw(e, "TypeError")
    ELSE ExtStringNames(
            [e EXCEPT !.strings =
                Put(@, NameAt(e, OffsetAt(e.extStrOffsets,
                                          e.extHeader.nCapStr + e.extHeader.nCapBool
                                          + e.extHeader.nCapNum + i)),
                    e.extStr[i + 1])],
            i + 1)

readExtNames(e) ==
    Then(ExtBooleanNames(e, 0),
         Then(ExtNumberNames(ExtBooleanNames(e, 0), 0),
              ExtStringNames(ExtNumberNames(ExtBooleanNames(e, 0), 0), 0)))

\* this.#file.close()
Close(e) == [e EXCEPT !.closed = TRUE]

\* the constructor of Entry, a step at a time from the end
AfterExtNames(e) == Then(e, Close(e))
AfterExtStrings(e) == Then(e, AfterExtNames(readExtNames(e)))
AfterExtNums(e) == Then(e, AfterExtStrings(readExtStrings(e)))
AfterExtBools(e) == Then(e, AfterExtNums(readExtNums(e)))
AfterExtHeader(e) == Then(e, AfterExtBools(readExtBools(e)))
AfterStrings(e) ==
    Then(e, IF fileEnd(e) THEN Close(e) ELSE AfterExtHeader(readExtHeader(e)))
AfterNumbers(e) == Then(e, AfterStrings(readStrings(e)))
AfterBooleans(e) == Then(e, AfterNumbers(readNumbers(e)))
AfterTermNames(e) == Then(e, AfterBooleans(readBooleans(e)))
AfterHeader(e) == Then(e, AfterTermNames(readTermNames(e)))

\* new Entry(path) on the bytes of the file at path
Entry(path, file) == AfterHeader(readHeader(Opened(path, file)))

\* is32bit() and isExtended()
is32bit(e) == e.header.magic = MAGIC_32
isExtended(e) == e.extended

(***************************************************************************)
(* The database (class DB).  A tree is the directories and the files below *)
(* a root; a path is the sequence of its components.                       *)
(***************************************************************************)
FilesBelow(tree, root) ==
    {p \in DOMAIN tree.files : Len(p) > Len(root) /\ SubSeq(p, 1, Len(root)) = root}

\* entry.name of readDirSync: the last component of a path
LeafName(p) == p[Len(p)]

\* DB.#populate(): this.entries[n] = db for every file below the root.  The
\* trees of the model hold no leaf name twice, so the order of readDirSync
\* does not show in the result.
populate(tree, root) ==
    [n \in {LeafName(p) : p \in FilesBelow(tree, root)} |->
        CHOOSE p \in FilesBelow(tree, root) : LeafName(p) = n]

NoDB == [built |-> FALSE, path |-> <<>>, entries |-> <<>>]

\* the value a call that threw before it opened a file leaves
NoEntry == Opened(<<>>, <<>>)

(***************************************************************************)
(* Files.  A description lists what a terminfo file holds; FileOf writes   *)
(* it in the layout of term(5), which is the layout the decoder reads.  A  *)
(* string value is [present, text]; an extended capability carries its     *)
(* name.  uncounted is the number of offsets, beyond the absent ones, that *)
(* the nStr of the extended header leaves out.                             *)
(***************************************************************************)
Int16(n) == <<((n + 65536) % 65536) % 256, ((n + 65536) % 65536) \div 256>>

Int32(n) ==
    IF n >= 0
    THEN <<n % 256, (n \div 256) % 256, (n \div 65536) % 256, n \div 16777216>>
    ELSE <<(n + 2147483647 + 1) % 256, ((n + 2147483647 + 1) \div 256) % 256,
           ((n + 2147483647 + 1) \div 65536) % 256,
           ((n + 2147483647 + 1) \div 16777216) + 128>>

NumberBytes(wide, n) == IF wide THEN Int32(n) ELSE Int16(n)

RECURSIVE Concat(_)
Concat(seqs) == IF Len(seqs) = 0 THEN <<>> ELSE Head(seqs) \o Concat(Tail(seqs))

Present(text) == [present |-> TRUE, text |-> text]
Absent == [present |-> FALSE, text |-> <<>>]

\* the table of the present values, each with its terminator
TableOf(values) ==
    Concat([j \in DOMAIN values |->
               IF values[j].present THEN values[j].text \o <<0>> ELSE <<>>])

\* the offsets of the values from the j-th on, the j-th starting at at
RECURSIVE OffsetsOf(_, _, _)
OffsetsOf(values, j, at) ==
    IF j > Len(values) THEN <<>>
    ELSE IF ~values[j].present THEN <<-1>> \o OffsetsOf(values, j + 1, at)
    ELSE <<at>> \o OffsetsOf(values, j + 1, at + Len(values[j].text) + 1)

OffsetBytes(values) ==
    Concat([j \in DOMAIN values |-> Int16(OffsetsOf(values, 1, 0)[j])])

PadIfOdd(n) == IF n % 2 = 1 THEN <<0>> ELSE <<>>

BasicOf(d) ==
    Int16(IF d.wide THEN MAGIC_32 ELSE MAGIC) \o Int16(Len(d.names) + 1)
    \o Int16(Len(d.bools)) \o Int16(Len(d.nums)) \o Int16(Len(d.strs))
    \o Int16(Len(TableOf(d.strs)))
    \o d.names \o <<0>>
    \o d.bools \o PadIfOdd(Len(d.names) + 1 + Len(d.bools))
    \o Concat([j \in DOMAIN d.nums |-> NumberBytes(d.wide, d.nums[j])])
    \o OffsetBytes(d.strs) \o TableOf(d.strs)

\* the names of the extended capabilities, in the order of the name offsets
ExtNamesOf(d) ==
    [j \in DOMAIN d.xbools |-> Present(d.xbools[j].name)]
    \o [j \in DOMAIN d.xnums |-> Present(d.xnums[j].name)]
    \o [j \in DOMAIN d.xstrs |-> Present(d.xstrs[j].name)]

ExtValuesOf(d) == [j \in DOMAIN d.xstrs |-> d.xstrs[j].value]

AbsentIn(values) == Cardinality({j \in DOMAIN values : ~values[j].present})

ExtOf(d) ==
    PadIfOdd(Len(TableOf(d.strs)))
    \o Int16(Len(d.xbools)) \o Int16(Len(d.xnums)) \o Int16(Len(d.xstrs))
    \o Int16(Len(d.xstrs) + Len(ExtNamesOf(d)) - AbsentIn(ExtValuesOf(d)) - d.uncounted)
    \o Int16(Len(TableOf(ExtValuesOf(d))) + Len(TableOf(ExtNamesOf(d))))
    \o [j \in DOMAIN d.xbools |-> d.xbools[j].value] \o PadIfOdd(Len(d.xbools))
    \o Concat([j \in DOMAIN d.xnums |-> NumberBytes(d.wide, d.xnums[j].value)])
    \o OffsetBytes(ExtValuesOf(d)) \o OffsetBytes(ExtNamesOf(d))
    \o TableOf(ExtValuesOf(d)) \o TableOf(ExtNamesOf(d))

FileOf(d) == IF d.ext THEN BasicOf(d) \o ExtOf(d) ELSE BasicOf(d)

Named(name, value) == [name |-> name, value |-> value]

Description(wide, names, bools, nums, strs) ==
    [wide |-> wide, names |-> names, bools |-> bools, nums |-> nums, strs |-> strs,
     ext |-> FALSE, xbools |-> <<>>, xnums |-> <<>>, xstrs |-> <<>>, uncounted |-> 0]

Extended(d, xbools, xnums, xstrs, uncounted) ==
    [d EXCEPT !.ext = TRUE, !.xbools = xbools, !.xnums = xnums, !.xstrs = xstrs,
              !.uncounted = uncounted]

\* "a|A": two booleans, two numbers of which one is absent, three strings of
\* which one is absent
Plain16 == Description(FALSE, <<97, 124, 65>>, <<1, 0>>, <<80, -1>>,
                       <<Present(<<120>>), Absent, Present(<<121, 122>>)>>)

\* 32-bit numbers, a pad byte after the booleans
Plain32 == Description(TRUE, <<98>>, <<1>>, <<70000>>, <<Present(<<120>>)>>)

Bare == Description(FALSE, <<99>>, <<>>, <<>>, <<>>)

\* the extended boolean AX and nothing else
OnlyExtBoolean == Extended(Bare, <<Named(<<65, 88>>, 1)>>, <<>>, <<>>, 0)

\* the extended boolean AX, number U8 = 5 and string kf = "v"
AllKinds ==
    Extended(Plain16, <<Named(<<65, 88>>, 1)>>, <<Named(<<85, 56>>, 5)>>,
             <<Named(<<107, 102>>, Present(<<118>>))>>, 0)

\* 32-bit extended numbers N1 = -1 and N2 = 70000, and the string kf = "v"
NegativeExtNumber ==
    Extended(Plain32, <<>>, <<Named(<<78, 49>>, -1), Named(<<78, 50>>, 70000)>>,
             <<Named(<<107, 102>>, Present(<<118>>))>>, 0)

\* the extended strings k1 = "v" and k2, absent and not counted in nStr
AbsentExtString ==
    Extended(Bare, <<>>, <<>>,
             <<Named(<<107, 49>>, Present(<<118>>)), Named(<<107, 50>>, Absent)>>, 0)

\* three extended strings, two of them absent, and an nStr of 2: the second
\* pass of the offsets meets an absent one
ShortCount ==
    Extended(Bare, <<>>, <<>>,
             <<Named(<<107, 49>>, Present(<<118>>)), Named(<<107, 50>>, Absent),
               Named(<<107, 51>>, Absent)>>, 2)

\* the extended booleans AX, whose byte is 0, and XT, and the string kf = "v"
FalseExtBoolean ==
    Extended(Bare, <<Named(<<65, 88>>, 0), Named(<<88, 84>>, 1)>>, <<>>,
             <<Named(<<107, 102>>, Present(<<118>>))>>, 0)

WellFormed == {Plain16, Plain32, Bare, OnlyExtBoolean, AllKinds, NegativeExtNumber,
               AbsentExtString, FalseExtBoolean}

WellFormedFiles == {FileOf(d) : d \in WellFormed}

\* the first bytes 1A 02
BadMagic == <<26, 2>> \o SubSeq(FileOf(Plain16), 3, Len(FileOf(Plain16)))

\* every file above, every file cut short, and the bad magic
Prefixes(file) == {SubSeq(file, 1, n) : n \in 0..Len(file)}

DecodeFiles ==
    UNION {Prefixes(file) : file \in WellFormedFiles \cup {FileOf(ShortCount)}}
    \cup {BadMagic}

\* the record of a call of the decoder
Result(call, arg, thrown, value) ==
    [call |-> call, arg |-> arg, thrown |-> thrown, value |-> value]

(***************************************************************************)
(* State.                                                                  *)
(*   regDefaults, paramDefaults  the objects Program.#regDefaults and      *)
(*                               Program.#paramDefaults                    *)
(*   staticRegDefaults           the object Terminal.#staticRegDefaults    *)
(*   programs                    the Program objects constructed           *)
(*   termRef, code, hasCode, ... the fields of each Program                *)
(*   raw                         the raw instruction list each Program is  *)
(*                               compiled from (the lexer's result)        *)
(*   lastCall                    the last call made and how it ended       *)
(*   tree                        the directories and files on disk         *)
(*   db                          the DB object: its path and its entries   *)
(*   returned                    the last call of the decoder              *)
(*   openFiles                   the file handles opened and not closed    *)
(***************************************************************************)
VARIABLES regDefaults, paramDefaults, staticRegDefaults, programs, termRef, raw,
          code, hasCode, maxUsedParam, affectedLines, programCounter, stack,
          output, executing, done, lastCall,
          tree, db, returned, openFiles

programVars == <<regDefaults, paramDefaults, staticRegDefaults, programs, termRef, raw,
                 code, hasCode, maxUsedParam, affectedLines, programCounter, stack,
                 output, executing, done, lastCall>>

decoderVars == <<tree, db, returned, openFiles>>

vars == <<programVars, decoderVars>>

Progs == {1, 2}
Terms == {1, 2}

\* number of parameter slots
NumParams == 9

\* reset() assigns the class-level objects themselves, not copies of them:
\* every Program's dynamicRegisters and params are these two objects
dynamicRegisters(p) == regDefaults
params(p) == paramDefaults

\* the Terminal constructor assigns the class-level object itself
staticRegisters(t) == staticRegDefaults

Call(op, p, args, thrown, value) ==
    [op |-> op, prog |-> p, args |-> args, thrown |-> thrown, value |-> value]

\* the machine a call on Program p works on
Machine(p) ==
    [programCounter |-> programCounter[p], stack |-> stack[p], output |-> output[p],
     done |-> done[p], dynamicRegisters |-> dynamicRegisters(p), params |-> params(p),
     staticRegisters |-> staticRegisters(termRef[p]), error |-> "none"]

IntInRange(v) == v.k = "int" => v.n \in (-MaxInt)..MaxInt

\* the bound on integers: a call is followed only while its values stay in range
InRange(m) ==
    /\ \A j \in DOMAIN m.stack : IntInRange(m.stack[j])
    /\ \A j \in DOMAIN m.params : IntInRange(m.params[j])
    /\ \A r \in Lower : IntInRange(m.dynamicRegisters[r])
    /\ \A r \in Upper : IntInRange(m.staticRegisters[r])

\* write the machine's fields back to Program p and the shared objects
Store(p, m) ==
    /\ programCounter' = [programCounter EXCEPT ![p] = m.programCounter]
    /\ stack' = [stack EXCEPT ![p] = m.stack]
    /\ output' = [output EXCEPT ![p] = m.output]
    /\ done' = [done EXCEPT ![p] = m.done]
    /\ regDefaults' = m.dynamicRegisters
    /\ paramDefaults' = m.params
    /\ staticRegDefaults' = m.staticRegisters

\* the fields reset() assigns
ResetFields(p) ==
    /\ affectedLines' = [affectedLines EXCEPT ![p] = 1]
    /\ programCounter' = [programCounter EXCEPT ![p] = 0]
    /\ stack' = [stack EXCEPT ![p] = <<>>]
    /\ output' = [output EXCEPT ![p] = <<>>]
    /\ executing' = [executing EXCEPT ![p] = FALSE]
    /\ done' = [done EXCEPT ![p] = FALSE]

UsedParams(insns) == {insns[j].index : j \in {i \in DOMAIN insns : insns[i].opcode = "PUSH_PARAM"}}

Max(S) == CHOOSE x \in S : \A y \in S : y <= x

\* the instructions setter's loop over the code
MaxUsedParamOf(insns) == Max(UsedParams(insns) \cup {0})

(***************************************************************************)
(* Program.compile(s): Compiler.compile, from the raw instruction list on, *)
(* then the instructions setter.                                           *)
(***************************************************************************)
Compile(p) ==
    /\ p \in programs
    /\ LET r == convertFC(raw[p]) IN
       IF r.kind = "throw"
       THEN /\ lastCall' = Call("compile", p, <<>>, r.error, Undefined)
            /\ UNCHANGED <<code, hasCode, maxUsedParam>>
       ELSE IF hasCode[p]
       THEN /\ lastCall' = Call("compile", p, <<>>, "TypeError", Undefined)
            /\ UNCHANGED <<code, hasCode, maxUsedParam>>
       ELSE IF r.kind = "array"
       THEN /\ hasCode' = [hasCode EXCEPT ![p] = TRUE]
            /\ code' = [code EXCEPT ![p] = r.block]
            /\ maxUsedParam' = [maxUsedParam EXCEPT ![p] = MaxUsedParamOf(r.block)]
            /\ lastCall' = Call("compile", p, <<>>, "none", Undefined)
       ELSE \* the value [i + 1, result]: neither element has an opcode
            /\ hasCode' = [hasCode EXCEPT ![p] = TRUE]
            /\ code' = [code EXCEPT ![p] = <<NotAnInstruction, NotAnInstruction>>]
            /\ lastCall' = Call("compile", p, <<>>, "TypeError", Undefined)
            /\ UNCHANGED maxUsedParam
    /\ UNCHANGED <<regDefaults, paramDefaults, staticRegDefaults, programs, termRef,
                   raw, affectedLines, programCounter, stack, output, executing, done>>
    /\ UNCHANGED decoderVars

\* parm.find(e => typeof(e) !== "number" && typeof(e) !== "string"), as a condition
FindsInvalid(parm) ==
    LET bad == {j \in DOMAIN parm : typeof(parm[j]) \notin {"number", "string"}} IN
    bad # {} /\ Truthy(parm[CHOOSE j \in bad : \A i \in bad : j <= i])

\* this.params.splice(0, parm.length, ...parm)
Splice(slots, parm) ==
    parm \o SubSeq(slots, Len(parm) + 1, Len(slots))

\* the exception begin(...parm) throws, "none" when it throws nothing
BeginError(p, parm) ==
    IF executing[p] THEN "none"
    ELSE IF FindsInvalid(parm) THEN "TypeError"
    ELSE IF Len(parm) < maxUsedParam[p] THEN "RangeError"
    ELSE "none"

\* faulty variant: begin stores its arguments without testing the executing flag
BeginParamsUnguarded(p, parm) ==
    IF BeginError(p, parm) = "none" THEN Splice(params(p), parm) ELSE params(p)

\* the parameter slots after begin(...parm)
BeginParams(p, parm) ==
    IF ~executing[p] /\ BeginError(p, parm) = "none"
    THEN Splice(params(p), parm) ELSE params(p)

(***************************************************************************)
(* Program.begin(...parm)                                                  *)
(***************************************************************************)
Begin(p, parm) ==
    /\ p \in programs
    /\ paramDefaults' = BeginParams(p, parm)
    /\ executing' = [executing EXCEPT ![p] = @ \/ BeginError(p, parm) = "none"]
    /\ lastCall' = Call("begin", p, parm, BeginError(p, parm), Undefined)
    /\ UNCHANGED <<regDefaults, staticRegDefaults, programs, termRef, raw, code,
                   hasCode, maxUsedParam, affectedLines, programCounter, stack,
                   output, done>>
    /\ UNCHANGED decoderVars

(***************************************************************************)
(* Program.step()                                                          *)
(***************************************************************************)
Step(p) ==
    /\ p \in programs
    /\ LET m == execInstruction(Machine(p), code[p]) IN
       /\ InRange(m)
       /\ Store(p, m)
       /\ lastCall' = Call("step", p, <<>>, m.error,
                           IF m.error = "none" /\ m.done THEN Str(m.output) ELSE Undefined)
    /\ UNCHANGED <<programs, termRef, raw, code, hasCode, maxUsedParam,
                   affectedLines, executing>>
    /\ UNCHANGED decoderVars

(***************************************************************************)
(* Program.reset()                                                         *)
(***************************************************************************)
Reset(p) ==
    /\ p \in programs
    /\ ResetFields(p)
    /\ lastCall' = Call("reset", p, <<>>, "none", Undefined)
    /\ UNCHANGED <<regDefaults, paramDefaults, staticRegDefaults, programs, termRef,
                   raw, code, hasCode, maxUsedParam>>
    /\ UNCHANGED decoderVars

(***************************************************************************)
(* Program.exec(aff, ...parm)                                              *)
(***************************************************************************)
Exec(p, aff, parm) ==
    /\ p \in programs
    /\ IF aff < 1
       THEN /\ lastCall' = Call("exec", p, parm, "TypeError", Undefined)
            /\ UNCHANGED <<regDefaults, paramDefaults, staticRegDefaults,
                           affectedLines, programCounter, stack, output, executing, done>>
       ELSE IF BeginError(p, parm) # "none"
       THEN /\ affectedLines' = [affectedLines EXCEPT ![p] = aff]
            /\ lastCall' = Call("exec", p, parm, BeginError(p, parm), Undefined)
            /\ UNCHANGED <<regDefaults, paramDefaults, staticRegDefaults,
                           programCounter, stack, output, executing, done>>
       ELSE LET m == RunLoop([Machine(p) EXCEPT !.params = BeginParams(p, parm)], code[p]) IN
            /\ InRange(m)
            /\ regDefaults' = m.dynamicRegisters
            /\ paramDefaults' = m.params
            /\ staticRegDefaults' = m.staticRegisters
            /\ IF m.error # "none"
               THEN /\ affectedLines' = [affectedLines EXCEPT ![p] = aff]
                    /\ executing' = [executing EXCEPT ![p] = TRUE]
                    /\ programCounter' = [programCounter EXCEPT ![p] = m.programCounter]
                    /\ stack' = [stack EXCEPT ![p] = m.stack]
                    /\ output' = [output EXCEPT ![p] = m.output]
                    /\ done' = [done EXCEPT ![p] = m.done]
                    /\ lastCall' = Call("exec", p, parm, m.error, Undefined)
               ELSE /\ ResetFields(p)
                    /\ lastCall' = Call("exec", p, parm, "none", Str(m.output))
    /\ UNCHANGED <<programs, termRef, raw, code, hasCode, maxUsedParam>>
    /\ UNCHANGED decoderVars

(***************************************************************************)
(* Inputs.                                                                 *)
(***************************************************************************)
PARAM_INC == Instruction("PARAM_INC")

\* "%p1%PA"
SrcSetStatic == <<genParam(1), genSetVar("A")>>
\* "%gA%d"
SrcGetStatic == <<genPushVar("A"), genPrint("d")>>
\* "%p1%Pa%ga%d"
SrcSetDynamic == <<genParam(1), genSetVar("a"), genPushVar("a"), genPrint("d")>>
\* "%i%p1%d;%p2%d"
SrcCursor == <<PARAM_INC, genParam(1), genPrint("d"), genOut(<<59>>),
               genParam(2), genPrint("d")>>

Sources == {SrcSetStatic, SrcGetStatic, SrcSetDynamic, SrcCursor}

\* argument lists of begin and exec
ParamLists == {<<>>, <<Num(0)>>, <<Num(2), Str(<<97>>)>>, <<Null>>,
               <<Undefined, Bool(FALSE)>>, <<Num(1), Obj>>}

\* first arguments of exec
AffectedLines == {0, 2}

(***************************************************************************)
(* The state after construction: new Terminal() for each terminal and      *)
(* new Program(terminal) for each program, nothing compiled yet.           *)
(***************************************************************************)
Constructed(live, sources) ==
    /\ regDefaults = [r \in Lower |-> Null]
    /\ paramDefaults = [j \in 1..NumParams |-> Num(0)]
    /\ staticRegDefaults = [r \in Upper |-> Null]
    /\ programs = live
    /\ termRef \in {[p \in Progs |-> 1], [p \in Progs |-> p]}
    /\ \A p \in Progs \ live : termRef[p] = 1
    /\ raw \in {[p \in Progs |-> IF p \in live THEN f[p] ELSE <<>>] : f \in [live -> sources]}
    /\ code = [p \in Progs |-> <<>>]
    /\ hasCode = [p \in Progs |-> FALSE]
    /\ maxUsedParam = [p \in Progs |-> 0]
    /\ affectedLines = [p \in Progs |-> 1]
    /\ programCounter = [p \in Progs |-> 0]
    /\ stack = [p \in Progs |-> <<>>]
    /\ output = [p \in Progs |-> <<>>]
    /\ executing = [p \in Progs |-> FALSE]
    /\ done = [p \in Progs |-> FALSE]
    /\ lastCall = Call("new", 1, <<>>, "none", Undefined)

\* no file, no DB and no Entry
Undecoded ==
    /\ tree = [dirs |-> {}, files |-> <<>>]
    /\ db = NoDB
    /\ returned = Result("none", <<>>, "none", NoEntry)
    /\ openFiles = 0

\* every call a caller can make, with argument lists from lists and first
\* arguments of exec from affs
Calls(lists, affs) ==
    \E p \in Progs :
        \/ Compile(p)
        \/ \E parm \in lists : Begin(p, parm)
        \/ Step(p)
        \/ Reset(p)
        \/ \E aff \in affs, parm \in lists : Exec(p, aff, parm)

(***************************************************************************)
(* Spec: one Program, compiled from a source of the catalogue, and every   *)
(* call on it.                                                             *)
(***************************************************************************)
Init == Constructed({1}, Sources) /\ Undecoded

Next == Calls(ParamLists, AffectedLines)

Spec == Init /\ [][Next]_vars

(***************************************************************************)
(* SpecShared: two Programs, on one Terminal or on two, that write and     *)
(* read a static register.                                                 *)
(***************************************************************************)
SharedSources == {SrcSetStatic, SrcGetStatic}

SharedParamLists == {<<Num(1)>>, <<Num(2)>>}

InitShared == Constructed(Progs, SharedSources) /\ Undecoded

NextShared == Calls(SharedParamLists, {1})

SpecShared == InitShared /\ [][NextShared]_vars

(***************************************************************************)
(* SpecCompile: compile applied to every raw instruction list of at most   *)
(* MaxRawLen flow-control markers and plain instructions.                  *)
(***************************************************************************)
RawAlphabet == {BEGIN_IF, THEN_, ELSE_IF, END_IF, genConstant(1)}

RawLists == UNION {[1..n -> RawAlphabet] : n \in 0..MaxRawLen}

InitCompile == Constructed({1}, RawLists) /\ Undecoded

NextCompile == \E p \in Progs : Compile(p)

SpecCompile == InitCompile /\ [][NextCompile]_vars

(***************************************************************************)
(* SpecFlow: sources of the form %? C1 %t B1 %e C2 %t B2 ... %e Bn %;      *)
(* nested to depth MaxDepth inside a condition or a branch, between two    *)
(* literals, compiled and executed.  Every literal of a source is          *)
(* different, so the output tells which ones ran.                          *)
(***************************************************************************)
IfThen(c, b) == <<BEGIN_IF>> \o c \o <<THEN_>> \o b \o <<END_IF>>
IfElse(c, b1, b2) ==
    <<BEGIN_IF>> \o c \o <<THEN_>> \o b1 \o <<ELSE_IF>> \o b2 \o <<END_IF>>
IfElseIf(c1, b1, c2, b2, b3) ==
    <<BEGIN_IF>> \o c1 \o <<THEN_>> \o b1 \o <<ELSE_IF>> \o c2 \o <<THEN_>> \o b2
                 \o <<ELSE_IF>> \o b3 \o <<END_IF>>

Literal == genOut(<<0>>)

\* conditions: they leave one value on the stack
RECURSIVE Conditions(_)
Conditions(d) ==
    IF d = 0 THEN {<<genParam(1)>>, <<genParam(2)>>}
    ELSE Conditions(d - 1) \cup
         {IfElse(c, <<genConstant(1)>>, <<genConstant(0)>>) : c \in Conditions(d - 1)}

\* the constructs whose conditions and branches hold no construct
Flat ==
    LET c0 == Conditions(0)
        b0 == {<<>>, <<Literal>>}
    IN  {IfThen(c, b) : c \in c0, b \in b0}
        \cup {IfElse(c, b1, b2) : c \in c0, b1 \in b0, b2 \in b0}
        \cup {IfElseIf(c1, <<Literal>>, c2, b, <<Literal>>) : c1 \in c0, c2 \in c0, b \in b0}

\* the constructs nested to depth d: a construct of depth d - 1 in the
\* condition, the then branch, an else-if branch, the else branch, or both
\* branches, of one more construct
RECURSIVE Constructs(_)
Constructs(d) ==
    IF d <= 1 THEN Flat
    ELSE LET fs == Constructs(d - 1)
             p1 == <<genParam(1)>>
             p2 == <<genParam(2)>>
         IN  fs
             \cup {IfElse(c, <<Literal>>, <<Literal>>) : c \in Conditions(d - 1)}
             \cup {IfThen(p1, f) : f \in fs}
             \cup {IfElse(p1, f \o <<Literal>>, <<Literal>>) : f \in fs}
             \cup {IfElse(p2, <<Literal>>, <<Literal>> \o f) : f \in fs}
             \cup {IfElse(p1, f, f) : f \in fs}
             \cup {IfElseIf(p1, <<Literal>>, p2, f, <<Literal>>) : f \in fs}

\* the j-th instruction of a source, when a literal, writes the character 64 + j
Relabel(insns) ==
    [j \in DOMAIN insns |->
        IF insns[j].opcode = "OUT" THEN genOut(<<64 + j>>) ELSE insns[j]]

FlowSources ==
    {Relabel(<<Literal>> \o b \o <<Literal>>) : b \in Constructs(MaxDepth)}

FlowParamLists ==
    {<<Num(0), Num(0)>>, <<Num(0), Num(1)>>, <<Num(1), Str(<<>>)>>,
     <<Str(<<>>), Str(<<97>>)>>, <<Null, Num(0)>>}

InitFlow == Constructed({1}, FlowSources) /\ Undecoded

NextFlow ==
    \E p \in Progs :
        \/ Compile(p)
        \/ \E parm \in FlowParamLists : Exec(p, 1, parm)

SpecFlow == InitFlow /\ [][NextFlow]_vars

(***************************************************************************)
(* SpecVM: one Program of up to MaxPush pushes followed by one instruction *)
(* that pops, run on parameters of either kind.                            *)
(***************************************************************************)
PushLists == UNION {[1..n -> {genParam(1), genParam(2)}] : n \in 0..MaxPush}

PoppingInstructions ==
    {genPrint("c"), genPrint("d"), genPrint("s"), genSetVar("a"), genSetVar("A"),
     Instruction("STRLEN"), Instruction("ADD"), Instruction("SUBTRACT"),
     Instruction("MULTIPLY"), Instruction("DIVIDE"), Instruction("MODULO"),
     Instruction("AND"), Instruction("OR"), Instruction("XOR"), Instruction("NOT"),
     Instruction("CMP_EQUAL"), Instruction("CMP_GREATER"), Instruction("CMP_LESS"),
     Instruction("CMP_AND"), Instruction("CMP_OR"), Instruction("CMP_NOT"), THEN_}

VMSources == {pushes \o <<insn>> : pushes \in PushLists, insn \in PoppingInstructions}

VMParamLists == {<<Num(2), Str(<<97>>)>>, <<Str(<<>>), Num(0)>>, <<Num(3), Num(2)>>}

InitVM == Constructed({1}, VMSources) /\ Undecoded

NextVM == Calls(VMParamLists, {1})

SpecVM == InitVM /\ [][NextVM]_vars

(***************************************************************************)
(* SpecLiteral: one Program whose source is literal text, compiled and     *)
(* executed with no parameters.                                            *)
(***************************************************************************)
\* a ^ \ n 1 8
LiteralAlphabet == {97, 94, 92, 110, 49, 56}

LiteralSources == UNION {[1..n -> LiteralAlphabet] : n \in 0..MaxLiteralLen}

\* each source with its raw instruction list
LiteralRaw == {[source |-> s, raw |-> rawResult(s)] : s \in LiteralSources}

InitLiteral == Constructed({1}, {l.raw : l \in LiteralRaw}) /\ Undecoded

NextLiteral == \E p \in Progs : Compile(p) \/ Exec(p, 1, <<>>)

SpecLiteral == InitLiteral /\ [][NextLiteral]_vars

(***************************************************************************)
(* SpecFormat: one Program "%p1" followed by one printf instruction, for   *)
(* every format d o x X, set of flags, width and precision up to MaxWidth; *)
(* compiled, and executed on -MaxInt, 0 and MaxInt.                        *)
(***************************************************************************)
FlagIf(S, c) == IF c \in S THEN <<c>> ELSE <<>>

\* the flags of S written after ":", as the pattern of print_flags asks
FlagString(S) ==
    <<58>> \o FlagIf(S, 35) \o FlagIf(S, ChrMinus) \o FlagIf(S, ChrSpace) \o FlagIf(S, ChrPlus)

PrintFlags == {Str(FlagString(S)) : S \in SUBSET {35, ChrMinus, ChrSpace, ChrPlus}}

\* no width, "w" and "0w"
PrintWidths ==
    {Undefined} \cup {Str(<<Chr0 + w>>) : w \in 1..MaxWidth}
                \cup {Str(<<Chr0, Chr0 + w>>) : w \in 1..MaxWidth}

\* no precision and ".p"
PrintPrecisions == {Undefined} \cup {Str(<<Chr0 + q>>) : q \in 0..MaxWidth}

PrintGroups ==
    [print_format : {"d", "o", "x", "X"}, print_flags : PrintFlags,
     print_width : PrintWidths, print_precision : PrintPrecisions]

\* each printf instruction with the raw instruction list of its source
FormatRaw == {[groups |-> g, raw |-> <<genParam(1), genPrintGroups(g)>>] : g \in PrintGroups}

\* a negative argument, zero and a positive one
FormatParamLists == {<<Num(n)>> : n \in {-MaxInt, 0, MaxInt}}

InitFormat == Constructed({1}, {l.raw : l \in FormatRaw}) /\ Undecoded

NextFormat ==
    \E p \in Progs : Compile(p) \/ \E parm \in FormatParamLists : Exec(p, 1, parm)

SpecFormat == InitFormat /\ [][NextFormat]_vars

(***************************************************************************)
(* new Entry(path), new DB(path) and db.load(name).  returned holds the    *)
(* last of these calls: the exception it threw, "none" when it threw       *)
(* nothing, and the entry record it built.                                 *)
(***************************************************************************)
\* the open file handles after a constructor of Entry that ended in e
Handles(e) == openFiles + (IF e.closed THEN 0 ELSE 1)

NewEntry(path) ==
    /\ path \in DOMAIN tree.files
    /\ openFiles < MaxHandles
    /\ returned' = Result("Entry", path, Entry(path, tree.files[path]).error,
                          Entry(path, tree.files[path]))
    /\ openFiles' = Handles(Entry(path, tree.files[path]))
    /\ UNCHANGED <<tree, db>>
    /\ UNCHANGED programVars

NewDB(path) ==
    /\ ~db.built
    /\ path \in tree.dirs \cup DOMAIN tree.files
    /\ IF path \in tree.dirs
       THEN /\ db' = [built |-> TRUE, path |-> path, entries |-> populate(tree, path)]
            /\ returned' = Result("DB", path, "none", NoEntry)
       ELSE /\ returned' = Result("DB", path, "TypeError", NoEntry)
            /\ UNCHANGED db
    /\ UNCHANGED <<tree, openFiles>>
    /\ UNCHANGED programVars

Load(name) ==
    /\ db.built
    /\ openFiles < MaxHandles
    /\ IF DOMAIN db.entries = {}
       THEN /\ returned' = Result("load", name, "UninitializedError", NoEntry)
            /\ UNCHANGED openFiles
       ELSE IF name \notin DOMAIN db.entries
       THEN /\ returned' = Result("load", name, "TypeError", NoEntry)
            /\ UNCHANGED openFiles
       ELSE /\ returned' = Result("load", name,
                                  Entry(db.entries[name], tree.files[db.entries[name]]).error,
                                  Entry(db.entries[name], tree.files[db.entries[name]]))
            /\ openFiles' = Handles(Entry(db.entries[name], tree.files[db.entries[name]]))
    /\ UNCHANGED <<tree, db>>
    /\ UNCHANGED programVars

\* no Program constructed
NoPrograms == Constructed({}, {<<>>})

NothingReturned == Result("none", <<>>, "none", NoEntry)

(***************************************************************************)
(* SpecDecode: one file, whole or cut short, and new Entry on it.          *)
(***************************************************************************)
FilePath == <<"f">>

InitDecode ==
    /\ NoPrograms
    /\ tree \in {[dirs |-> {}, files |-> [p \in {FilePath} |-> file]] : file \in DecodeFiles}
    /\ db = NoDB
    /\ returned = NothingReturned
    /\ openFiles = 0

NextDecode == \E path \in {FilePath} : NewEntry(path)

SpecDecode == InitDecode /\ [][NextDecode]_vars

(***************************************************************************)
(* SpecDB: a tree with well-formed files at none, one or both of two       *)
(* paths, a DB built over it, and load.                                    *)
(***************************************************************************)
Root == <<"t">>

TreePaths == {<<"t", "a">>, <<"t", "x", "b">>}

Trees ==
    {[dirs |-> {Root, <<"t", "x">>}, files |-> f] :
        f \in UNION {[S -> WellFormedFiles] : S \in SUBSET TreePaths}}

LoadNames == {"a", "b", "c"}

InitDB ==
    /\ NoPrograms
    /\ tree \in Trees
    /\ db = NoDB
    /\ returned = NothingReturned
    /\ openFiles = 0

NextDB ==
    \/ \E path \in {Root, <<"t", "a">>} : NewDB(path)
    \/ \E name \in LoadNames : Load(name)

SpecDB == InitDB /\ [][NextDB]_vars

(***************************************************************************)
(* SpecHalt: one Program compiled from a raw instruction list of at most   *)
(* MaxHaltLen flow-control markers, pushes and literals, "%?%;" among      *)
(* them, and every call on it.                                             *)
(***************************************************************************)
HaltAlphabet == {BEGIN_IF, THEN_, ELSE_IF, END_IF, genParam(1), genOut(<<97>>)}

HaltSources == UNION {[1..n -> HaltAlphabet] : n \in 1..MaxHaltLen}

HaltParamLists == {<<Num(0)>>, <<Num(1)>>}

InitHalt == Constructed({1}, HaltSources) /\ Undecoded

NextHalt == Calls(HaltParamLists, {1})

SpecHalt == InitHalt /\ [][NextHalt]_vars

(***************************************************************************)
(* Claims about the compiler.                                              *)
(***************************************************************************)
IsJump(insn) == insn.opcode \in {"JUMP", "JUMP_ZERO"}

\* index (0-based) the jump at 0-based index k leads to
JumpTarget(insns, k) == k + insns[k + 1].position + 1

\* C9: in every program compile returns, the target k + position + 1 of every
\* JUMP and JUMP_ZERO lies in 0..length, the length being the halt position.
C9_JumpTargetsInRange ==
    \A p \in programs :
        hasCode[p] =>
            \A k \in 0..(Len(code[p]) - 1) :
                IsJump(code[p][k + 1]) => JumpTarget(code[p], k) \in 0..Len(code[p])

\* a compiled program with a JUMP_ZERO that leads to an instruction of the
\* program and a JUMP that leads to the halt position, both over other instructions
C9_Witness ==
    /\ hasCode[1]
    /\ lastCall = Call("compile", 1, <<>>, "none", Undefined)
    /\ \E k \in 0..(Len(code[1]) - 1) :
          /\ code[1][k + 1].opcode = "JUMP_ZERO"
          /\ code[1][k + 1].position > 1
          /\ JumpTarget(code[1], k) < Len(code[1])
    /\ \E k \in 0..(Len(code[1]) - 1) :
          /\ code[1][k + 1].opcode = "JUMP"
          /\ code[1][k + 1].position > 0
          /\ JumpTarget(code[1], k) = Len(code[1])

\* number of %? still open at the end of the list (a %; closes the innermost)
RECURSIVE OpenAtEnd(_, _, _)
OpenAtEnd(insns, j, open) ==
    IF j > Len(insns) THEN open
    ELSE IF insns[j].opcode = "TI_FLOW_BEGIN_IF" THEN OpenAtEnd(insns, j + 1, open + 1)
    ELSE IF insns[j].opcode = "TI_FLOW_END_IF" /\ open > 0
         THEN OpenAtEnd(insns, j + 1, open - 1)
    ELSE OpenAtEnd(insns, j + 1, open)

HasUnterminatedIf(insns) == OpenAtEnd(insns, 1, 0) > 0

\* C10: compiling a source in which some %? has no matching %; fails with the
\* Parse error "unexpected end of instructions" and returns no program.
C10_UnterminatedIfIsParseError ==
    \A p \in programs :
        (lastCall.op = "compile" /\ lastCall.prog = p /\ HasUnterminatedIf(raw[p])) =>
            (lastCall.thrown = "ParseError" /\ ~hasCode[p])

\* a %; met while no %? is open
RECURSIVE StrayAt(_, _, _)
StrayAt(insns, j, open) ==
    IF j > Len(insns) THEN FALSE
    ELSE IF insns[j].opcode = "TI_FLOW_BEGIN_IF" THEN StrayAt(insns, j + 1, open + 1)
    ELSE IF insns[j].opcode = "TI_FLOW_END_IF"
         THEN open = 0 \/ StrayAt(insns, j + 1, open - 1)
    ELSE StrayAt(insns, j + 1, open)

HasStrayEndIf(insns) == StrayAt(insns, 1, 0)

\* C11: compiling a source with a %; while no %? is open fails with a
\* ParseError, and Program.compile leaves the Program without code.
C11_StrayEndIfIsParseError ==
    \A p \in programs :
        (lastCall.op = "compile" /\ lastCall.prog = p /\ HasStrayEndIf(raw[p])) =>
            (lastCall.thrown = "ParseError" /\ ~hasCode[p])

(***************************************************************************)
(* Claims about conditionals.                                              *)
(***************************************************************************)
\* index of the %e or %; that ends the branch starting at j, at its own level
RECURSIVE BranchEnd(_, _, _)
BranchEnd(insns, j, level) ==
    LET op == insns[j].opcode IN
    IF op = "TI_FLOW_BEGIN_IF" THEN BranchEnd(insns, j + 1, level + 1)
    ELSE IF op = "TI_FLOW_END_IF"
         THEN IF level = 0 THEN j ELSE BranchEnd(insns, j + 1, level - 1)
    ELSE IF op = "TI_FLOW_ELSE_IF" /\ level = 0 THEN j
    ELSE BranchEnd(insns, j + 1, level)

\* index of the %; that closes the construct the instruction at j lies in
RECURSIVE ConstructEnd(_, _, _)
ConstructEnd(insns, j, level) ==
    LET op == insns[j].opcode IN
    IF op = "TI_FLOW_BEGIN_IF" THEN ConstructEnd(insns, j + 1, level + 1)
    ELSE IF op = "TI_FLOW_END_IF"
         THEN IF level = 0 THEN j ELSE ConstructEnd(insns, j + 1, level - 1)
    ELSE ConstructEnd(insns, j + 1, level)

\* what a source of literals, parameters, constants and conditionals is meant
\* to write: after %t the branch runs iff the condition left a value other
\* than 0 and ""; a branch that ran is followed by the instruction after %;
RECURSIVE Meaning(_, _, _, _, _)
Meaning(insns, parm, j, stk, out) ==
    IF j > Len(insns) THEN out
    ELSE
    LET insn == insns[j]
        op == insn.opcode
    IN  CASE op = "OUT" -> Meaning(insns, parm, j + 1, stk, out \o insn.str)
          [] op = "PUSH_PARAM" ->
               Meaning(insns, parm, j + 1, Append(stk, parm[insn.index]), out)
          [] op = "CONSTANT" ->
               Meaning(insns, parm, j + 1, Append(stk, Num(insn.value)), out)
          [] op = "TI_FLOW_THEN" ->
               LET v == stk[Len(stk)]
                   rest == SubSeq(stk, 1, Len(stk) - 1)
               IN  IF v = Num(0) \/ v = Str(<<>>)
                   THEN Meaning(insns, parm, BranchEnd(insns, j + 1, 0) + 1, rest, out)
                   ELSE Meaning(insns, parm, j + 1, rest, out)
          [] op = "TI_FLOW_ELSE_IF" ->
               Meaning(insns, parm, ConstructEnd(insns, j + 1, 0) + 1, stk, out)
          [] OTHER -> Meaning(insns, parm, j + 1, stk, out)

\* C1: executing the program compiled from a conditional source, on the
\* parameter slots the run read, writes the literals before the construct,
\* the branch of the first condition that left a value other than 0 and ""
\* (the final else branch when there is none), nothing of any other branch,
\* and then what follows the %;.
C1_OneBranchRuns ==
    (lastCall.op = "exec" /\ hasCode[1]) =>
        /\ lastCall.thrown = "none"
        /\ lastCall.value = Str(Meaning(raw[1], params(1), 1, <<>>, <<>>))

\* an else-if chain whose first condition was zero and whose second was not:
\* the run wrote the leading literal, the second branch and the trailing literal
C1_Witness ==
    /\ lastCall.op = "exec"
    /\ lastCall.thrown = "none"
    /\ lastCall.args = <<Num(0), Num(1)>>
    /\ SubSeq(params(1), 1, 2) = lastCall.args
    /\ raw[1] = Relabel(<<Literal>>
                        \o IfElseIf(<<genParam(1)>>, <<Literal>>, <<genParam(2)>>,
                                    IfThen(<<genParam(2)>>, <<Literal>>), <<Literal>>)
                        \o <<Literal>>)
    /\ code[1][3] = [Instruction("JUMP_ZERO") EXCEPT !.position = 2]
    /\ lastCall.value = Str(<<65, 76, 81>>)

(***************************************************************************)
(* Claims about executions.                                                *)
(***************************************************************************)
\* the arguments begin is meant to accept: integers and strings, as many as
\* the program uses
ValidParams(p, parm) ==
    /\ \A j \in DOMAIN parm : parm[j].k \in {"int", "str"}
    /\ Len(parm) >= maxUsedParam[p]

\* the run of Program p's code from program counter 0, with an empty stack
\* and output, on the given parameters spliced into the parameter slots
FreshRun(p, parm) ==
    RunLoop([programCounter |-> 0, stack |-> <<>>, output |-> <<>>, done |-> FALSE,
             dynamicRegisters |-> dynamicRegisters(p),
             params |-> Splice(params(p), parm),
             staticRegisters |-> staticRegisters(termRef[p]), error |-> "none"],
            code[p])

\* C2: whatever calls came before, exec(affectedLines, params) on a compiled
\* Program starts at program counter 0 with an empty stack, empty output and
\* the given params: it ends as the run from that start ends, with the same
\* bytes returned.
C2_ExecStartsWithFullReset ==
    [][\A p \in programs, aff \in AffectedLines, parm \in ParamLists :
          (hasCode[p] /\ aff >= 1 /\ ValidParams(p, parm) /\ Exec(p, aff, parm)) =>
              LET m == FreshRun(p, parm) IN
              /\ lastCall'.thrown = m.error
              /\ m.error = "none" => lastCall'.value = Str(m.output)]_vars

\* C3: at the start of every execution (a begin that enters the executing
\* state) all dynamic registers a..z hold the default null and every
\* parameter slot the caller did not supply holds the default 0.
C3_ExecutionStartsFromDefaults ==
    [][\A p \in programs, parm \in ParamLists :
          (~executing[p] /\ Begin(p, parm) /\ executing'[p]) =>
              /\ \A r \in Lower : dynamicRegisters(p)'[r] = Null
              /\ \A j \in (Len(parm) + 1)..NumParams : params(p)'[j] = Num(0)]_vars

\* C6: begin on a Program that is not executing throws a TypeError when an
\* argument is neither an integer nor a string, a RangeError when the
\* arguments are of these kinds but fewer than maxUsedParam, and on either
\* failure leaves the executing flag clear and the parameter slots unchanged.
C6_BeginRejectsBadParams ==
    [][\A p \in programs, parm \in ParamLists :
          (~executing[p] /\ Begin(p, parm)) =>
              LET bad == \E j \in DOMAIN parm : parm[j].k \notin {"int", "str"}
                  few == Len(parm) < maxUsedParam[p]
              IN  /\ bad => lastCall'.thrown = "TypeError"
                  /\ (few /\ ~bad) => lastCall'.thrown = "RangeError"
                  /\ (bad \/ few) => (~executing'[p] /\ params(p)' = params(p))]_vars

\* C7: while the executing flag is set, begin with any arguments throws
\* nothing, starts no second execution, and leaves the parameter slots,
\* program counter, stack, output and done flag unchanged.
C7_BeginWhileExecutingIsNoOp ==
    [][\A p \in programs, parm \in ParamLists :
          (executing[p] /\ Begin(p, parm)) =>
              /\ lastCall'.thrown = "none"
              /\ executing'[p]
              /\ params(p)' = params(p)
              /\ programCounter'[p] = programCounter[p]
              /\ stack'[p] = stack[p]
              /\ output'[p] = output[p]
              /\ done'[p] = done[p]]_vars

\* a begin that threw nothing and did not store its first argument: the
\* Program was executing when it was called
C7_Witness ==
    /\ lastCall.op = "begin"
    /\ lastCall.thrown = "none"
    /\ executing[1]
    /\ Len(lastCall.args) > 0
    /\ params(1)[1] # lastCall.args[1]
    /\ programCounter[1] > 0
    /\ output[1] # <<>>

(***************************************************************************)
(* Claims about static registers.                                          *)
(***************************************************************************)
\* the instruction Program p runs next
NextInstruction(p) == Fetch(code[p], programCounter[p])

\* Program p is at an instruction of this opcode on a static register, and
\* not done
RunsStatic(p, opcode) ==
    /\ ~done[p]
    /\ NextInstruction(p).opcode = opcode
    /\ NextInstruction(p).name \in Upper

HasSetVar(insns, name) == \E j \in DOMAIN insns : insns[j] = genSetVar(name)

\* the static registers whose value, as Terminal t holds it, changes in a step
Changed(t) == {name \in Upper : staticRegisters(t)'[name] # staticRegisters(t)[name]}

\* C4: a static register keeps the value a SET_VAR stored: that SET_VAR puts
\* the popped value in the register of its Terminal; a PUSH_VAR of the
\* register by a Program of the same Terminal pushes the register's value;
\* and nothing but the SET_VAR of that register changes it, not reset, begin,
\* compile, or the execution of other instructions.
C4_StaticRegisterPersists ==
    [][/\ \A p \in programs :
            (RunsStatic(p, "SET_VAR") /\ stack[p] # <<>> /\ Step(p)) =>
                \A q \in programs :
                    termRef[p] = termRef[q] =>
                        staticRegisters(termRef[q])'[NextInstruction(p).name]
                            = stack[p][Len(stack[p])]
       /\ \A q \in programs :
            (RunsStatic(q, "PUSH_VAR") /\ Step(q)) =>
                stack'[q] = Append(stack[q],
                                   staticRegisters(termRef[q])[NextInstruction(q).name])
       /\ \A t \in Terms :
            \A name \in Changed(t) :
                \E p \in programs :
                    /\ lastCall'.prog = p
                    /\ \/ /\ lastCall'.op = "step"
                          /\ RunsStatic(p, "SET_VAR")
                          /\ NextInstruction(p).name = name
                       \/ lastCall'.op = "exec" /\ HasSetVar(code[p], name)]_vars

\* Program 2 printed the register that Program 1 of the same Terminal set
\* to 2 in an execution that has ended
C4_Witness ==
    /\ raw[1] = SrcSetStatic
    /\ raw[2] = SrcGetStatic
    /\ termRef[1] = termRef[2]
    /\ ~executing[1]
    /\ stack[1] = <<>>
    /\ lastCall.op = "exec"
    /\ lastCall.prog = 2
    /\ lastCall.thrown = "none"
    /\ lastCall.value = Str(<<50>>)

\* C5: a SET_VAR of a static register run by a Program of one Terminal leaves
\* the register of that name as read by the Programs of another Terminal
\* unchanged.
C5_StaticRegistersPerTerminal ==
    [][\A p \in programs :
          (RunsStatic(p, "SET_VAR") /\ Step(p)) =>
              \A q \in programs :
                  termRef[p] # termRef[q] =>
                      staticRegisters(termRef[q])'[NextInstruction(p).name]
                          = staticRegisters(termRef[q])[NextInstruction(p).name]]_vars

(***************************************************************************)
(* Claims about the stack.                                                 *)
(***************************************************************************)
\* the kinds an instruction pops, in the order it pops them
PopKinds(insn) ==
    CASE insn.opcode = "PRINT" ->
           IF insn.format = "s" THEN <<"string">> ELSE <<"number">>
      [] insn.opcode = "STRLEN" -> <<"string">>
      [] insn.opcode = "NOT" -> <<"number">>
      [] insn.opcode \in {"ADD", "SUBTRACT", "MULTIPLY", "DIVIDE", "MODULO",
                          "AND", "OR", "XOR"} -> <<"number", "number">>
      [] insn.opcode \in {"SET_VAR", "CMP_NOT", "JUMP_ZERO"} -> <<"any">>
      [] insn.opcode \in {"CMP_EQUAL", "CMP_GREATER", "CMP_LESS", "CMP_AND", "CMP_OR"} ->
           <<"any", "any">>
      [] OTHER -> <<>>

\* the failure of popping these kinds from the stack, "none" when all succeed
RECURSIVE ExpectedError(_, _)
ExpectedError(kinds, stk) ==
    IF kinds = <<>> THEN "none"
    ELSE IF stk = <<>> THEN "RuntimeError"
    ELSE IF Head(kinds) # "any" /\ typeof(stk[Len(stk)]) # Head(kinds) THEN "TypeError"
    ELSE ExpectedError(Tail(kinds), SubSeq(stk, 1, Len(stk) - 1))

\* C8: an instruction that pops from an empty stack throws a RuntimeError, a
\* typed pop that finds a value of the other kind throws a TypeError, and the
\* instruction that failed appends nothing to the output and does not
\* advance the program counter; an instruction whose pops all succeed
\* throws nothing.
C8_PopFailures ==
    [][\A p \in programs :
          (~done[p] /\ programCounter[p] < Len(code[p]) /\ Step(p)) =>
              LET e == ExpectedError(PopKinds(NextInstruction(p)), stack[p]) IN
              /\ lastCall'.thrown = e
              /\ e # "none" => /\ output'[p] = output[p]
                               /\ programCounter'[p] = programCounter[p]]_vars

\* a step at ADD that threw a TypeError on its second operand, after the
\* first operand, a number, had been popped
C8_Witness ==
    /\ lastCall.op = "step"
    /\ lastCall.thrown = "TypeError"
    /\ hasCode[1]
    /\ code[1] = <<genParam(1), genParam(2), Instruction("ADD")>>
    /\ programCounter[1] = 2
    /\ stack[1] = <<>>
    /\ output[1] = <<>>
    /\ ~done[1]

\* neither 0 nor the empty string
NeitherZeroNorEmpty(v) == v # Num(0) /\ v # Str(<<>>)

\* the top of a stack
Top(stk) == stk[Len(stk)]

\* Program p is about to execute an instruction of these opcodes on a stack
\* of at least depth values
About(p, opcodes, depth) ==
    /\ ~done[p]
    /\ programCounter[p] < Len(code[p])
    /\ NextInstruction(p).opcode \in opcodes
    /\ Len(stack[p]) >= depth

\* C22: a step at CMP_AND or CMP_OR on a stack that ends with a, b leaves
\* one value in their place, the number 1 when both (CMP_AND) or at least
\* one (CMP_OR) of a and b is neither 0 nor the empty string, and the
\* number 0 otherwise.
C22_LogicalPushesZeroOrOne ==
    [][\A p \in programs :
          (About(p, {"CMP_AND", "CMP_OR"}, 2) /\ Step(p)) =>
              LET b == Top(stack[p])
                  a == stack[p][Len(stack[p]) - 1]
              IN  /\ lastCall'.thrown = "none"
                  /\ Len(stack'[p]) = Len(stack[p]) - 1
                  /\ Top(stack'[p]) =
                        IF NextInstruction(p).opcode = "CMP_AND"
                        THEN FromBoolean(NeitherZeroNorEmpty(a) /\ NeitherZeroNorEmpty(b))
                        ELSE FromBoolean(NeitherZeroNorEmpty(a) \/ NeitherZeroNorEmpty(b))]_vars

\* C23: a step at STRLEN on a stack that ends with a string leaves the
\* depth of the stack unchanged and the length of the string, an integer,
\* on top.
C23_StrlenPushesLength ==
    [][\A p \in programs :
          (About(p, {"STRLEN"}, 1) /\ typeof(Top(stack[p])) = "string" /\ Step(p)) =>
              /\ lastCall'.thrown = "none"
              /\ Len(stack'[p]) = Len(stack[p])
              /\ Top(stack'[p]) = Num(Len(Top(stack[p]).s))]_vars

(***************************************************************************)
(* Claims about literal text.                                              *)
(***************************************************************************)
IsPlain(s) == \A j \in 1..Len(s) : s[j] \notin {ChrCaret, ChrBackslash}

\* each source with its raw instruction list and its escape-processed form
LiteralEscaped ==
    {[source |-> l.source, raw |-> l.raw, escaped |-> handleEscapes(l.source)] :
        l \in LiteralRaw}

\* C12: a source without % and without $<...>, the empty one included,
\* compiled and executed with no parameters returns the escape-processed
\* source, and the source itself when it has no ^ and no backslash.
C12_LiteralRoundTrip ==
    (hasCode[1] /\ lastCall.op = "exec") =>
        \A l \in LiteralEscaped :
            raw[1] = l.raw =>
                /\ lastCall.thrown = "none"
                /\ lastCall.value = Str(l.escaped)
                /\ IsPlain(l.source) => lastCall.value = Str(l.source)

\* "^a" was compiled and executed: the result is the character 0x01
C12_Witness ==
    /\ raw[1] = rawResult(<<94, 97>>)
    /\ lastCall.op = "exec"
    /\ lastCall.thrown = "none"
    /\ lastCall.value = Str(<<1>>)

\* the characters the listed escapes denote: \E \e \n \l \r \t \b \f \s \^ \\ \, \:
EscapeLetters == {69, 101, 110, 108, 114, 116, 98, 102, 115, 94, 92, 44, 58}

DenotedBy(c) ==
    CASE c \in {69, 101} -> <<27>>
      [] c = 110 -> <<13, 10>>
      [] c = 108 -> <<10>>
      [] c = 114 -> <<13>>
      [] c = 116 -> <<9>>
      [] c = 98 -> <<8>>
      [] c = 102 -> <<12>>
      [] c = 115 -> <<32>>
      [] OTHER -> <<c>>

IsOctalDigit(c) == c \in 48..55

\* the number of octal digits at index i, three at most
OctalRun(s, i) ==
    IF i > Len(s) \/ ~IsOctalDigit(s[i]) THEN 0
    ELSE IF i + 1 > Len(s) \/ ~IsOctalDigit(s[i + 1]) THEN 1
    ELSE IF i + 2 > Len(s) \/ ~IsOctalDigit(s[i + 2]) THEN 2
    ELSE 3

RECURSIVE OctalValue(_, _, _)
OctalValue(s, i, n) ==
    IF n = 0 THEN 0 ELSE OctalValue(s, i, n - 1) * 8 + (s[i + n - 1] - 48)

\* the text from index i on is made of plain characters and listed escapes,
\* read left to right
RECURSIVE OnlyListed(_, _)
OnlyListed(s, i) ==
    IF i > Len(s) THEN TRUE
    ELSE IF s[i] = ChrCaret
         THEN i < Len(s) /\ s[i + 1] \notin LineTerminators /\ OnlyListed(s, i + 2)
    ELSE IF s[i] = ChrBackslash
         THEN IF OctalRun(s, i + 1) > 0
              THEN /\ DigitRun(s, i + 1) = OctalRun(s, i + 1)
                   /\ OnlyListed(s, i + 1 + OctalRun(s, i + 1))
              ELSE i < Len(s) /\ s[i + 1] \in EscapeLetters /\ OnlyListed(s, i + 2)
    ELSE OnlyListed(s, i + 1)

\* the text from index i on with every listed escape, read left to right,
\* replaced by the characters it denotes
RECURSIVE Denoted(_, _)
Denoted(s, i) ==
    IF i > Len(s) THEN <<>>
    ELSE IF s[i] = ChrCaret /\ i < Len(s)
         THEN <<IF s[i + 1] = 63 THEN 127 ELSE s[i + 1] % 32>> \o Denoted(s, i + 2)
    ELSE IF s[i] = ChrBackslash /\ OctalRun(s, i + 1) > 0
         THEN <<OctalValue(s, i + 1, OctalRun(s, i + 1))>>
              \o Denoted(s, i + 1 + OctalRun(s, i + 1))
    ELSE IF s[i] = ChrBackslash /\ i < Len(s) /\ s[i + 1] \in EscapeLetters
         THEN DenotedBy(s[i + 1]) \o Denoted(s, i + 2)
    ELSE <<s[i]>> \o Denoted(s, i + 1)

\* each source made of plain characters and listed escapes, with its raw
\* instruction list and the text it denotes
LiteralDenoted ==
    {[source |-> l.source, raw |-> l.raw, denoted |-> Denoted(l.source, 1)] :
        l \in {k \in LiteralRaw : OnlyListed(k.source, 1)}}

\* C24: literal text made of plain characters and listed escapes, compiled
\* and executed, returns the text with every escape, read left to right,
\* replaced by the character it denotes; \^ gives ^ and \\ followed by a
\* letter gives a backslash followed by the letter.
C24_EscapesLeftToRight ==
    (hasCode[1] /\ lastCall.op = "exec") =>
        \A l \in LiteralDenoted :
            raw[1] = l.raw =>
                /\ lastCall.thrown = "none"
                /\ lastCall.value = Str(l.denoted)

(***************************************************************************)
(* Claims about printf.  CPrintf is the text C printf writes for an int    *)
(* argument: an unsigned conversion shows a negative one in two's          *)
(* complement on 32 bits and has no sign, so + and space do nothing there. *)
(***************************************************************************)
CGiven(v) == v # Undefined

CValue(v) == IF v = Undefined THEN 0 ELSE DecimalValue(v.s)

CFlag(g, c) == Includes(g.print_flags.s, c)

\* the digits of the argument, without sign
CUnsigned(format, n) ==
    CASE format = "d" -> Digits(Abs(n), 10, FALSE)
      [] format = "o" -> IF n < 0 THEN <<51>> \o Digits(1073741824 + n, 8, FALSE)
                         ELSE Digits(n, 8, FALSE)
      [] OTHER -> IF n < 0
                  THEN Digits(65535, 16, format = "X") \o Digits(65536 + n, 16, format = "X")
                  ELSE Digits(n, 16, format = "X")

\* the precision: the least number of digits; a zero with precision 0 has none
CDigits(g, n) ==
    IF n = 0 /\ CGiven(g.print_precision) /\ CValue(g.print_precision) = 0 THEN <<>>
    ELSE Repeat(Chr0, CValue(g.print_precision) - Len(CUnsigned(g.print_format, n)))
         \o CUnsigned(g.print_format, n)

\* # on o: the first digit is made a zero
COctal(g, digits) ==
    IF g.print_format = "o" /\ CFlag(g, 35) /\ (Len(digits) = 0 \/ digits[1] # Chr0)
    THEN <<Chr0>> \o digits
    ELSE digits

\* the sign of d, and 0x or 0X before a nonzero x or X under #
CHead(g, n) ==
    IF g.print_format = "d"
    THEN IF n < 0 THEN <<ChrMinus>>
         ELSE IF CFlag(g, ChrPlus) THEN <<ChrPlus>>
         ELSE IF CFlag(g, ChrSpace) THEN <<ChrSpace>>
         ELSE <<>>
    ELSE IF g.print_format \in {"x", "X"} /\ CFlag(g, 35) /\ n # 0
         THEN <<Chr0, IF g.print_format = "X" THEN 88 ELSE 120>>
    ELSE <<>>

\* the field width: - pads on the right, 0 pads with zeros after the head
\* unless a precision is given, otherwise blanks on the left
CPad(g, head, body, space) ==
    IF CFlag(g, ChrMinus) THEN head \o body \o Repeat(ChrSpace, space)
    ELSE IF LeadingZero(g.print_width.s) /\ ~CGiven(g.print_precision)
         THEN head \o Repeat(Chr0, space) \o body
    ELSE Repeat(ChrSpace, space) \o head \o body

CField(g, head, body) ==
    IF g.print_width = Undefined THEN head \o body
    ELSE CPad(g, head, body, CValue(g.print_width) - Len(head) - Len(body))

CPrintf(g, n) == CField(g, CHead(g, n), COctal(g, CDigits(g, n)))

\* C13: for every integer and every combination of flags, width and
\* precision, the text PRINT writes for d, o, x and X is the text C printf
\* writes for the same conversion.
C13_PrintMatchesPrintf ==
    (hasCode[1] /\ lastCall.op = "exec" /\ lastCall.thrown = "none") =>
        \A l \in FormatRaw :
            raw[1] = l.raw => lastCall.value = Str(CPrintf(l.groups, lastCall.args[1].n))

(***************************************************************************)
(* Claims about the decoder.  What a claim says of a file is computed from *)
(* the bytes of the file and from the reads the constructor made.          *)
(***************************************************************************)
\* the constructor of Entry ran and returned the entry
Decoded == returned.call = "Entry" /\ returned.thrown = "none"

\* the indices in e.reads of the reads of a block
BlockReads(e, block) == {j \in DOMAIN e.reads : e.reads[j].block = block}

\* the position of the first read of a block
BlockPos(e, block) ==
    e.reads[CHOOSE j \in BlockReads(e, block) : \A i \in BlockReads(e, block) : j <= i].pos

\* the i-th offset of the basic string block, as written in the file
WrittenOffset(e, i) == getInt16(e.file, BlockPos(e, "offsets") + 2 * i)

\* the i-th offset of the extended string block, as written in the file
WrittenExtOffset(e, i) == getInt16(e.file, BlockPos(e, "extOffsets") + 2 * i)

\* C14: in every Entry the decoder returns no key of numbers has a negative
\* value and no key of strings comes from a negative offset, in the basic
\* section and in the extended section.
C14_NoGhostCapabilities ==
    Decoded =>
        /\ \A k \in DOMAIN returned.value.numbers : returned.value.numbers[k] >= 0
        /\ \A i \in 0..(returned.value.header.nCapStr - 1) :
              WrittenOffset(returned.value, i) < 0 =>
                  StringKey(i) \notin DOMAIN returned.value.strings
        /\ \A i \in 0..(returned.value.extHeader.nCapStr - 1) :
              WrittenExtOffset(returned.value, i) < 0 =>
                  NameAt(returned.value,
                         OffsetAt(returned.value.extStrOffsets,
                                  returned.value.extHeader.nCapStr
                                  + returned.value.extHeader.nCapBool
                                  + returned.value.extHeader.nCapNum + i))
                      \notin DOMAIN returned.value.strings

\* the number of width bytes written at a position of the file
WrittenNumber(file, at, width) ==
    IF width = 4 THEN getInt32(file, at) ELSE getInt16(file, at)

\* 4 iff the first two bytes of the file are 1E 02
WidthOfMagic(file) == IF file[1] = 30 /\ file[2] = 2 THEN 4 ELSE 2

\* every read of a block asks for count numbers of the width of the magic
BlockOfWidth(e, block, count) ==
    \A j \in BlockReads(e, block) : e.reads[j].nbytes = count * WidthOfMagic(e.file)

\* C15: is32bit() is true iff the magic is 0x021E, and the numbers of the
\* basic block and of the extended block are all read at one width, 4 bytes
\* iff the magic is 0x021E and 2 bytes otherwise.
C15_OneNumberWidth ==
    Decoded =>
        /\ is32bit(returned.value) <=> WidthOfMagic(returned.value.file) = 4
        /\ BlockOfWidth(returned.value, "numbers", returned.value.header.nCapNum)
        /\ BlockOfWidth(returned.value, "extNumbers", returned.value.extHeader.nCapNum)
        /\ \A i \in 0..(returned.value.header.nCapNum - 1) :
              WrittenNumber(returned.value.file,
                            BlockPos(returned.value, "numbers")
                            + i * WidthOfMagic(returned.value.file),
                            WidthOfMagic(returned.value.file)) >= 0
              => returned.value.numbers[NumberKey(i)]
                 = WrittenNumber(returned.value.file,
                                 BlockPos(returned.value, "numbers")
                                 + i * WidthOfMagic(returned.value.file),
                                 WidthOfMagic(returned.value.file))
        /\ \A i \in 0..(returned.value.extHeader.nCapNum - 1) :
              returned.value.extNum[i + 1]
              = WrittenNumber(returned.value.file,
                              BlockPos(returned.value, "extNumbers")
                              + i * WidthOfMagic(returned.value.file),
                              WidthOfMagic(returned.value.file))

\* a 32-bit file with the extended numbers -1 and 70000 was decoded
C15_Witness ==
    /\ Decoded
    /\ is32bit(returned.value)
    /\ returned.value.numbers[NumberKey(0)] = 70000
    /\ returned.value.extNum = <<-1, 70000>>

\* C16: decoding a file whose magic is neither 0x011A nor 0x021E fails with
\* a FormatError, the error of a block cut short.
C16_BadMagicIsFormatError ==
    (/\ returned.call = "Entry"
     /\ Len(returned.value.file) >= HeaderSize
     /\ ~IsMagic(getInt16(returned.value.file, 0)))
    => returned.thrown = "FormatError"

\* C17: on every way out of the constructor of Entry, a return or an
\* exception, the file handle opened at its start has been closed.
C17_FileNeverLeftOpen ==
    returned.call = "Entry" => (returned.value.closed /\ openFiles = 0)

\* C18: a DB built over a tree of well-formed files indexes the files by
\* their names, and load of an indexed name returns an Entry with a
\* non-empty brief name whose is32bit() and isExtended() are booleans.
C18_LoadReturnsEntry ==
    /\ db.built => DOMAIN db.entries = {LeafName(p) : p \in DOMAIN tree.files}
    /\ (returned.call = "load" /\ returned.arg \in DOMAIN db.entries) =>
          /\ returned.thrown = "none"
          /\ returned.value.path = db.entries[returned.arg]
          /\ Len(returned.value.names.brief) > 0
          /\ is32bit(returned.value) \in BOOLEAN
          /\ isExtended(returned.value) \in BOOLEAN

\* the 32-bit extended file below the directory x was loaded by its name
C18_Witness ==
    /\ returned.call = "load"
    /\ returned.arg = "b"
    /\ returned.thrown = "none"
    /\ returned.value.path = <<"t", "x", "b">>
    /\ is32bit(returned.value)
    /\ isExtended(returned.value)

\* the offsets the read j of the extended offsets asks for
AskedBy(e, j) == e.reads[j].nbytes \div 2

\* the index, among the written offsets, of the first one of read j
FirstOf(e, j) == (e.reads[j].pos - BlockPos(e, "extOffsets")) \div 2

\* the negative offsets among those written where read j reads
NegativeIn(e, j) ==
    Cardinality({i \in FirstOf(e, j)..(FirstOf(e, j) + AskedBy(e, j) - 1) :
                    WrittenExtOffset(e, i) < 0})

\* the passes: the first asks for nStr offsets, each later one for as many
\* as its predecessor held negative ones, at least one, right behind it
PassesChained(e) ==
    \A j \in BlockReads(e, "extOffsets") :
        IF j - 1 \in BlockReads(e, "extOffsets")
        THEN /\ AskedBy(e, j) = NegativeIn(e, j - 1)
             /\ AskedBy(e, j) > 0
             /\ e.reads[j].pos = e.reads[j - 1].pos + e.reads[j - 1].nbytes
        ELSE AskedBy(e, j) = e.extHeader.nStr

\* the last pass
LastPass(e) ==
    CHOOSE j \in BlockReads(e, "extOffsets") : \A i \in BlockReads(e, "extOffsets") : i <= j

\* the offsets consumed by all passes
Consumed(e) == FirstOf(e, LastPass(e)) + AskedBy(e, LastPass(e))

\* the loop was left by a short read
PassCutShort(e) == e.error = "FormatError" /\ LastPass(e) = Len(e.reads)

\* C19: the extended string offsets are consumed in passes, first nStr of
\* them and then as many as the pass before held negative ones, until a pass
\* holds none; the offsets consumed before the string table are nStr plus
\* the negative ones among them, unless a short read ends the loop with a
\* FormatError.
C19_OffsetPasses ==
    (returned.call = "Entry" /\ BlockReads(returned.value, "extOffsets") # {}) =>
        /\ PassesChained(returned.value)
        /\ \/ PassCutShort(returned.value)
           \/ /\ NegativeIn(returned.value, LastPass(returned.value)) = 0
              /\ Len(returned.value.extStrOffsets) = Consumed(returned.value)
              /\ Consumed(returned.value)
                 = returned.value.extHeader.nStr
                   + Cardinality({i \in 0..(Consumed(returned.value) - 1) :
                                     WrittenExtOffset(returned.value, i) < 0})
              /\ \A j \in BlockReads(returned.value, "extTable") :
                    returned.value.reads[j].pos
                    = BlockPos(returned.value, "extOffsets") + 2 * Consumed(returned.value)

\* three passes were made: the second one met a negative offset
C19_Witness ==
    /\ Decoded
    /\ Cardinality(BlockReads(returned.value, "extOffsets")) = 3
    /\ returned.value.extStrMissingTotal = 2
    /\ Len(returned.value.extStrOffsets) = 4

\* the position of the first byte after the value strings in the extended
\* string table: 0 when no value is present
ValuesEnd(e) ==
    IF \A i \in 0..(e.extHeader.nCapStr - 1) : WrittenExtOffset(e, i) < 0 THEN 0
    ELSE 1 + CHOOSE end \in 0..Len(e.extStrTable) :
                /\ \E i \in 0..(e.extHeader.nCapStr - 1) :
                      /\ WrittenExtOffset(e, i) >= 0
                      /\ end = IndexOf(e.extStrTable, 0, WrittenExtOffset(e, i))
                /\ \A i \in 0..(e.extHeader.nCapStr - 1) :
                      WrittenExtOffset(e, i) >= 0 =>
                          IndexOf(e.extStrTable, 0, WrittenExtOffset(e, i)) <= end

\* the complete name of the k-th name offset: the string that starts at the
\* written offset plus ValuesEnd
CompleteName(e, k) ==
    decode(Slice(e.extStrTable,
                 WrittenExtOffset(e, e.extHeader.nCapStr + k) + ValuesEnd(e),
                 IndexOf(e.extStrTable, 0,
                         WrittenExtOffset(e, e.extHeader.nCapStr + k) + ValuesEnd(e))))

\* C20: every extended capability of a well-formed file is bound under its
\* complete name, the string at its written name offset plus the position
\* after the value strings, which is 0 when no string value is present.
C20_CompleteExtendedNames ==
    (Decoded /\ returned.value.file \in WellFormedFiles /\ returned.value.extended) =>
        /\ \A i \in 0..(returned.value.extHeader.nCapBool - 1) :
              CompleteName(returned.value, i) \in DOMAIN returned.value.booleans
        /\ \A i \in 0..(returned.value.extHeader.nCapNum - 1) :
              CompleteName(returned.value, returned.value.extHeader.nCapBool + i)
                  \in DOMAIN returned.value.numbers
        /\ \A i \in 0..(returned.value.extHeader.nCapStr - 1) :
              WrittenExtOffset(returned.value, i) >= 0 =>
                  CompleteName(returned.value, returned.value.extHeader.nCapBool
                                               + returned.value.extHeader.nCapNum + i)
                      \in DOMAIN returned.value.strings

\* the i-th byte of a block, as written in the file
WrittenByte(e, block, i) == e.file[BlockPos(e, block) + i + 1]

\* C21: in every Entry the decoder returns every key of booleans maps to
\* true, and a capability whose byte is 0, in the basic block or in the
\* extended block, is not a key of booleans.
C21_BooleanAbsentIffZero ==
    Decoded =>
        /\ \A k \in DOMAIN returned.value.booleans : returned.value.booleans[k]
        /\ \A i \in 0..(returned.value.header.nCapBool - 1) :
              WrittenByte(returned.value, "booleans", i) = 0 =>
                  BooleanKey(i) \notin DOMAIN returned.value.booleans
        /\ \A i \in 0..(returned.value.extHeader.nCapBool - 1) :
              WrittenByte(returned.value, "extBooleans", i) = 0 =>
                  CompleteName(returned.value, i) \notin DOMAIN returned.value.booleans

(***************************************************************************)
(* Claims about halting.                                                   *)
(***************************************************************************)
\* compile returned a program to Program p: every element of its code is
\* an instruction of the runtime
Compiled(p) ==
    hasCode[p] /\ \A j \in DOMAIN code[p] : code[p][j].opcode \in RuntimeOpcodes

\* Program p is as reset() leaves it
AtStart(p) ==
    programCounter[p] = 0 /\ stack[p] = <<>> /\ output[p] = <<>> /\ ~done[p]

\* C25: every instruction that a compiled program executes moves the program
\* counter up, and done is true after it exactly when the program counter
\* is at or past the length of the code; exec on a compiled program ends
\* with its output or with the exception of an instruction that found the
\* stack empty, and on a program of zero instructions it returns the empty
\* output.
C25_EveryExecutionHalts ==
    [][\A p \in programs :
          /\ (Compiled(p) /\ ~done[p] /\ Step(p) /\ lastCall'.thrown = "none") =>
                /\ programCounter'[p] > programCounter[p]
                /\ done'[p] <=> programCounter'[p] >= Len(code[p])
          /\ \A parm \in HaltParamLists :
                (Compiled(p) /\ AtStart(p) /\ Exec(p, 1, parm)) =>
                    /\ lastCall'.thrown \in {"none", "RuntimeError"}
                    /\ Len(code[p]) = 0 =>
                          /\ lastCall'.thrown = "none"
                          /\ lastCall'.value = Str(<<>>)]_vars

=============================================================================
